---------------------------- MODULE Spec2Model ----------------------------
(***************************************************************************)
(* Model of yomama-as-a-service: the joke generator (YoMamaGenerator) and  *)
(* its callers.                                                            *)
(*                                                                         *)
(* Strings.  A Python str is a sequence of pieces.  A piece is either one  *)
(* character ("t", " ", "\n") or a whole literal of the program that is    *)
(* never taken apart (a fallback joke, a guidance phrase, a chunk of the   *)
(* prompt template).  Strings that the code inspects (themes, failure      *)
(* descriptions, response texts, target names) are written character by    *)
(* character, so lower(), strip(), capitalize() and the `in` substring     *)
(* test act on them as Python does.  A non-ASCII character of a literal    *)
(* is written U+XXXX inside its piece.  The empty str is << >>.  Python's  *)
(* None is the distinguished value None below, which is no str.            *)
(***************************************************************************)
EXTENDS Integers, Sequences, FiniteSets, TLC

\* Python None, for Optional[str] values.
None == <<"<None>">>

\* Truthiness of an Optional[str]: None and "" are falsy.
truthy(s) == s # None /\ s # << >>

Range(s) == {s[i] : i \in DOMAIN s}

UpperChars ==
    <<"A", "B", "C", "D", "E", "F", "G", "H", "I", "J", "K", "L", "M",
      "N", "O", "P", "Q", "R", "S", "T", "U", "V", "W", "X", "Y", "Z">>

LowerChars ==
    <<"a", "b", "c", "d", "e", "f", "g", "h", "i", "j", "k", "l", "m",
      "n", "o", "p", "q", "r", "s", "t", "u", "v", "w", "x", "y", "z">>

lower_char(ch) ==
    IF \E i \in DOMAIN UpperChars : UpperChars[i] = ch
    THEN LowerChars[CHOOSE i \in DOMAIN UpperChars : UpperChars[i] = ch]
    ELSE ch

upper_char(ch) ==
    IF \E i \in DOMAIN LowerChars : LowerChars[i] = ch
    THEN UpperChars[CHOOSE i \in DOMAIN LowerChars : LowerChars[i] = ch]
    ELSE ch

\* str.lower()
lower(s) == [i \in 1..Len(s) |-> lower_char(s[i])]

upper(s) == [i \in 1..Len(s) |-> upper_char(s[i])]

\* s.startswith(prefix)
startswith(prefix, s) ==
    Len(prefix) <= Len(s) /\ SubSeq(s, 1, Len(prefix)) = prefix

\* A capitalize that leaves the text as it is.
capitalize_forgotten(s) == s

\* str.capitalize(): first character upper-cased, the rest lower-cased.
capitalize(s) ==
    [i \in 1..Len(s) |-> IF i = 1 THEN upper_char(s[i]) ELSE lower_char(s[i])]

Whitespace == {" ", "\t", "\n", "\r", "\f"}

\* A strip that is forgotten.
strip_forgotten(s) == s

\* str.strip(): leading and trailing whitespace removed.
strip(s) ==
    LET keep == {i \in 1..Len(s) : s[i] \notin Whitespace}
    IN  IF keep = {} THEN << >>
        ELSE SubSeq(s, CHOOSE i \in keep : \A j \in keep : i <= j,
                       CHOOSE i \in keep : \A j \in keep : i >= j)

\* Python's `sub in s` on strings.
contains(sub, s) ==
    \E i \in 0..(Len(s) - Len(sub)) : SubSeq(s, i + 1, i + Len(sub)) = sub

DigitChars == <<"0", "1", "2", "3", "4", "5", "6", "7", "8", "9">>

RECURSIVE digits_of(_)
digits_of(n) ==
    IF n < 10 THEN <<DigitChars[n + 1]>>
    ELSE digits_of(n \div 10) \o <<DigitChars[(n % 10) + 1]>>

\* The f-string formatting of an int.
str_int(n) == IF n < 0 THEN <<"-">> \o digits_of(-n) ELSE digits_of(n)

\* The digits of an int literal: the text without surrounding whitespace and
\* without its sign.
int_digits(s) ==
    LET t == strip(s)
    IN  IF t # << >> /\ t[1] \in {"+", "-"} THEN Tail(t) ELSE t

\* int(s) raises ValueError: there is no digit or something else than digits.
int_raises(s) ==
    \/ int_digits(s) = << >>
    \/ \E i \in DOMAIN int_digits(s) : int_digits(s)[i] \notin Range(DigitChars)

digit_value(ch) == (CHOOSE i \in DOMAIN DigitChars : DigitChars[i] = ch) - 1

RECURSIVE digits_value(_)
digits_value(d) ==
    IF d = << >> THEN 0
    ELSE 10 * digits_value(SubSeq(d, 1, Len(d) - 1)) + digit_value(d[Len(d)])

\* int(s) for a str that is an int literal.
int_of(s) ==
    IF strip(s)[1] = "-" THEN 0 - digits_value(int_digits(s)) ELSE digits_value(int_digits(s))

max2(a, b) == IF a >= b THEN a ELSE b
min2(a, b) == IF a <= b THEN a ELSE b

---------------------------------------------------------------------------
\* The tables of YoMamaGenerator.

FLAVORS ==
    << <<"c", "l", "a", "s", "s", "i", "c">>,
       <<"c", "y", "b", "e", "r", "s", "e", "c", "u", "r", "i", "t", "y">>,
       <<"t", "e", "c", "h">>,
       <<"l", "i", "n", "u", "x">>,
       <<"g", "e", "n", "e", "r", "a", "l">>,
       <<"g", "a", "m", "i", "n", "g">>,
       <<"p", "r", "o", "g", "r", "a", "m", "m", "i", "n", "g">>,
       <<"n", "e", "t", "w", "o", "r", "k", "i", "n", "g">>,
       <<"c", "l", "o", "u", "d">>,
       <<"d", "e", "v", "o", "p", "s">>,
       <<"d", "a", "t", "a", "b", "a", "s", "e">>,
       <<"r", "a", "d", "i", "o">>,
       <<"t", "h", "e", "g", "a", "m", "e">> >>

flavor_contexts ==
    (<<"c", "l", "a", "s", "s", "i", "c">> :> <<"CLASSIC traditional Yo Mama jokes - use timeless formats like \"so fat\", \"so ugly\", \"so old\", \"so stupid\", \"so poor\", \"so hairy\", \"so short\", \"so tall\". Examples: \"Yo mama so fat when she sits around the house, she sits AROUND the house\", \"Yo mama so fat when she got on the scale it said 'I need your weight not your phone number'\", \"Yo mama so fat I took a picture of her last Christmas and it's still printing\", \"Yo mama like a race car she burns 4 rubbers a day\". Keep it traditional, punchy, and non-technical.">>) @@
    (<<"c", "y", "b", "e", "r", "s", "e", "c", "u", "r", "i", "t", "y">> :> <<"cybersecurity, hacking, vulnerabilities, security tools like CrowdStrike, Shodan, Suricata, Wazuh, firewalls, encryption, CVEs">>) @@
    (<<"t", "e", "c", "h">> :> <<"technology, computers, software, hardware, operating systems, IT support, tech companies">>) @@
    (<<"l", "i", "n", "u", "x">> :> <<"Linux, Unix, open source, command line, distros, kernel, bash, system administration, package managers">>) @@
    (<<"g", "e", "n", "e", "r", "a", "l">> :> <<"everyday technology, smartphones, social media, internet, basic computing">>) @@
    (<<"g", "a", "m", "i", "n", "g">> :> <<"video games, gaming hardware, esports, game development, streaming, lag, FPS">>) @@
    (<<"p", "r", "o", "g", "r", "a", "m", "m", "i", "n", "g">> :> <<"coding, programming languages, APIs, debugging, git, IDEs, software development">>) @@
    (<<"n", "e", "t", "w", "o", "r", "k", "i", "n", "g">> :> <<"networks, routers, switches, protocols, TCP/IP, DNS, load balancing, bandwidth">>) @@
    (<<"c", "l", "o", "u", "d">> :> <<"cloud computing, AWS, Azure, GCP, containers, Kubernetes, serverless, microservices">>) @@
    (<<"d", "e", "v", "o", "p", "s">> :> <<"DevOps, CI/CD, Docker, Jenkins, automation, infrastructure as code, monitoring">>) @@
    (<<"d", "a", "t", "a", "b", "a", "s", "e">> :> <<"databases, SQL, NoSQL, queries, indexes, normalization, database administrators">>) @@
    (<<"r", "a", "d", "i", "o">> :> <<"amateur radio, ham radio, frequencies, bands (HF/VHF/UHF), antennas, SWR, propagation, callsigns, morse code, repeaters, QSO, QSL cards, ARRL, FCC licenses (Technician/General/Extra), rigs, transceivers, DX, contestin">>) @@
    (<<"t", "h", "e", "g", "a", "m", "e">> :> <<"The Game - a mind game where thinking about The Game means you lose. Create creative, funny ways to tell them they just lost The Game. Be clever and unexpected. Reference memes, internet culture, or tech concepts if appropriate.">>)

default_flavor_context == <<"general technology">>

meanness_guide ==
    (1 :> <<"extremely gentle and wholesome, just playful teasing">>) @@
    (2 :> <<"mild and friendly, very light roasting">>) @@
    (3 :> <<"gentle but with a slight edge">>) @@
    (4 :> <<"moderately playful with some bite">>) @@
    (5 :> <<"balanced roasting, noticeable but not harsh">>) @@
    (6 :> <<"firm roasting with clear jabs">>) @@
    (7 :> <<"harsh and pointed, definitely stinging">>) @@
    (8 :> <<"brutal and savage, no holding back">>) @@
    (9 :> <<"devastatingly mean, almost cruel">>) @@
    (10 :> <<"absolutely merciless and nuclear-level savage">>)

nerdiness_guide ==
    (1 :> <<"use only basic everyday terms anyone would understand">>) @@
    (2 :> <<"use simple tech terms most people know">>) @@
    (3 :> <<"use common tech concepts">>) @@
    (4 :> <<"use moderately technical terms">>) @@
    (5 :> <<"use technical jargon that tech-savvy people know">>) @@
    (6 :> <<"use specialized technical terms">>) @@
    (7 :> <<"use insider technical references and acronyms">>) @@
    (8 :> <<"use advanced technical concepts and tools">>) @@
    (9 :> <<"use highly specialized technical knowledge">>) @@
    (10 :> <<"use extremely obscure technical references only experts would get">>)

fallbacks ==
    (<<"c", "y", "b", "e", "r", "s", "e", "c", "u", "r", "i", "t", "y">> :> <<"Yo mama so insecure, even CrowdStrike flagged her as a vulnerability.">>) @@
    (<<"t", "e", "c", "h">> :> <<"Yo mama so slow, buffering gives up and goes home.">>) @@
    (<<"l", "i", "n", "u", "x">> :> <<"Yo mama so bloated, even apt-get couldn't remove her dependencies.">>) @@
    (<<"g", "e", "n", "e", "r", "a", "l">> :> <<"Yo mama so old, her password is literally 'password'.">>) @@
    (<<"g", "a", "m", "i", "n", "g">> :> <<"Yo mama so laggy, ping timeout became her nickname.">>) @@
    (<<"p", "r", "o", "g", "r", "a", "m", "m", "i", "n", "g">> :> <<"Yo mama so buggy, Stack Overflow created a tag just for her.">>) @@
    (<<"r", "a", "d", "i", "o">> :> <<"Yo mama so noisy, she causes interference on all bands at once - 73!">>) @@
    (<<"t", "h", "e", "g", "a", "m", "e">> :> <<"Congratulations! You just lost The Game. And so did everyone reading this. Sorry not sorry. U+1F3AEU+1F480">>)

generic_fallback == <<"Yo mama so outdated, even legacy systems moved on.">>

rate_limit_jokes ==
    << <<"Yo mama hitting this API so hard, even Google told her to slow down! U+1F6A6 (Rate limit exceeded, try again in a minute)">>,
       <<"Yo mama's requests so thicc, the API said 'I need a break!' U+1F4A4 (Quota exceeded, please try again later)">>,
       <<"Yo mama making so many requests, the API filed a restraining order! U+1F6A8 (Rate limit hit, chill for a sec)">>,
       <<"Yo mama so demanding, she exceeded her quota faster than a script kiddie with a new API key! U+26A0U+FE0F (Try again in 60 seconds)">>,
       <<"Yo mama hit that rate limit so fast, even the API was like 'Damn girl, pace yourself!' U+1F525 (Quota exceeded, wait a minute)">>,
       <<"Yo mama's API calls so excessive, Google Gemini ghosted her! U+1F47B (Rate limit reached, try again soon)">> >>

default_target == <<"y", "o", " ", "m", "a", "m", "a">>

---------------------------------------------------------------------------
\* generate_joke, lines 87-101: input normalisation and the prompt.

\* A membership test on the flavor as it was typed.
drop_unknown_as_typed(f) ==
    IF truthy(f) /\ f \notin Range(FLAVORS) THEN None ELSE f

\* Lines 88-90: an unknown flavor is dropped.
drop_unknown(f) ==
    IF truthy(f) /\ lower(f) \notin Range(FLAVORS) THEN None ELSE f

\* A normalisation that ignores the flavor it was given.
normalized_flavors_always_random(f) == Range(FLAVORS)

\* Lines 88-95: the values `flavor` can hold after normalisation
\* (random.choice picks any member of FLAVORS).
normalized_flavors(f) ==
    IF drop_unknown(f) = None THEN Range(FLAVORS) ELSE {lower(drop_unknown(f))}

\* A clamp that forgets the lower end.
clamp_upper_only(value) == min2(10, value)

\* Lines 97-98.
clamp(value) == max2(1, min2(10, value))

\* _build_prompt raises KeyError when a level is no key of its guide.
build_prompt_raises(mn, nd) ==
    mn \notin DOMAIN meanness_guide \/ nd \notin DOMAIN nerdiness_guide

\* A target_name that is no str but a truthy value of another type (an int
\* such as a user id); Python accepts it up to the first str method.
NotAStr == <<"<int>">>

\* _build_prompt raises AttributeError at `target.capitalize()` when the
\* target is no str.
capitalize_raises(target_name) == target_name = NotAStr

\* A lookup that misses every theme.
flavor_context_missing(fl) == default_flavor_context

\* Line 159: `flavor_contexts.get(flavor, 'general technology')`.
flavor_context_of(fl) ==
    IF fl \in DOMAIN flavor_contexts THEN flavor_contexts[fl]
    ELSE default_flavor_context

build_prompt(fl, mn, nd, target_name) ==
    LET flavor_context == flavor_context_of(fl)
        target == IF truthy(target_name) THEN target_name ELSE default_target
    IN  <<"Generate a single \"Yo Mama\" style joke with these specifications:\n\nTHEME/FLAVOR: ">>
        \o fl
        \o <<" - Focus on ">>
        \o flavor_context
        \o <<"\n\nMEANNESS LEVEL: ">>
        \o str_int(mn)
        \o <<"/10 - ">>
        \o meanness_guide[mn]
        \o <<"\n\nNERDINESS LEVEL: ">>
        \o str_int(nd)
        \o <<"/10 - ">>
        \o nerdiness_guide[nd]
        \o <<"\n\nTARGET: Use \"">>
        \o target
        \o <<"\" instead of \"yo mama\"\n\nREQUIREMENTS:\n- Start with \"">>
        \o capitalize(target)
        \o <<" ", "s", "o">>
        \o <<" [adjective]...\"\n- The joke must be related to ">>
        \o fl
        \o <<"\n- Match the specified meanness and nerdiness levels precisely\n- Be creative and clever\n- Keep it concise (1-2 sentences max)\n- Make it funny and original\n\nEXAMPLES for reference (adjust based on parameters):\n\n">>
        \o fl
        \o <<" examples:\n- Yo mama so insecure, even CrowdStrike put her in Reduced Functionality Mode.\n- Yo mama so exposed, Shodan sends her vulnerability reports.\n- Yo mama so slow, when she tried to catch up on her emails, Outlook timed her out.\n\nGenerate ONE joke now, matching all specifications:">>

---------------------------------------------------------------------------
\* generate_joke, lines 103-131: the remote call and its outcome.

NoException == ""

\* Exception classes the client call and the try block can raise; all derive
\* from Exception.
ExceptionSubclasses ==
    {"Exception", "ClientError", "ServerError", "ConnectionError",
     "AttributeError", "KeyError", "EOFError", "ValueError"}

\* A handler that catches the client library's API errors only.
except_catches_api_errors(cls) == cls \in {"ClientError", "ServerError"}

\* `except Exception as e`
except_catches(cls) == cls \in ExceptionSubclasses

NoOutcome == [kind |-> "none", text |-> None, cls |-> NoException, msg |-> << >>]
Response(text) == [kind |-> "response", text |-> text, cls |-> NoException, msg |-> << >>]
Failure(cls, msg) == [kind |-> "error", text |-> None, cls |-> cls, msg |-> msg]

\* str(e) of the AttributeError of `None.strip()`.
none_strip_msg == <<"'NoneType' object has no attribute 'strip'">>

\* What the try block raises for a remote outcome (NoException: nothing).
try_raises(out) ==
    IF out.kind = "error" THEN [cls |-> out.cls, msg |-> out.msg]
    ELSE IF out.text = None THEN [cls |-> "AttributeError", msg |-> none_strip_msg]
    ELSE [cls |-> NoException, msg |-> << >>]

\* A marker test that forgets to lower-case the description.
is_rate_limit_case_sensitive(error_msg) ==
    \/ contains(<<"4", "2", "9">>, error_msg)
    \/ contains(<<"q", "u", "o", "t", "a">>, error_msg)
    \/ contains(<<"r", "a", "t", "e", " ", "l", "i", "m", "i", "t">>, error_msg)

\* Line 119.
is_rate_limit(error_msg) ==
    \/ contains(<<"4", "2", "9">>, error_msg)
    \/ contains(<<"q", "u", "o", "t", "a">>, lower(error_msg))
    \/ contains(<<"r", "a", "t", "e", " ", "l", "i", "m", "i", "t">>, lower(error_msg))

\* A fallback that ignores the theme.
get_fallback_joke_generic(fl) == generic_fallback

\* Lines 220-232.
get_fallback_joke(fl) ==
    IF fl \in DOMAIN fallbacks THEN fallbacks[fl] ELSE generic_fallback

\* Lines 103-131: the (result, raised) pairs generate_joke can end with.
joke_endings(fl, out) ==
    LET e == try_raises(out)
    IN  IF e.cls = NoException
        THEN {[result |-> strip(out.text), raised |-> NoException]}
        ELSE IF ~except_catches(e.cls)
        THEN {[result |-> None, raised |-> e.cls]}
        ELSE IF is_rate_limit(e.msg)
        THEN {[result |-> rate_limit_jokes[j], raised |-> NoException] :
                  j \in DOMAIN rate_limit_jokes}
        ELSE {[result |-> get_fallback_joke(fl), raised |-> NoException]}

\* A request that names the default model instead of the configured one.
issue_request_default_model(reqs, model, contents) ==
    Append(reqs, [model |-> "gemini-2.5-flash-lite", contents |-> contents])

\* Lines 105-108: the request handed to client.models.generate_content.
issue_request(reqs, model, contents) ==
    Append(reqs, [model |-> model, contents |-> contents])

---------------------------------------------------------------------------
\* Inputs.

\* The threads that call the generator: the CLI, the Discord thread and the
\* Matrix event loop.
Callers == {"cli", "discord", "matrix"}

ModelNames == {"gemini-2.5-flash-lite", "gemini-2.5-pro"}

\* How far below 1 and above 10 the level inputs reach.
LevelSlack == 2

LevelInputs == (1 - LevelSlack)..(10 + LevelSlack)

\* The default level and the two extremes.
SparseLevels == {1 - LevelSlack, 5, 10 + LevelSlack}

\* The (meanness, nerdiness) inputs: every level for one dial while the other
\* is the default or an extreme.
LevelPairs ==
    {p \in LevelInputs \X LevelInputs : p[1] \in SparseLevels \/ p[2] \in SparseLevels}

FlavorInputs ==
    {None, << >>, <<"t", "e", "c", "h">>, <<"T", "e", "c", "h">>, <<"T", "E", "C", "H">>, <<"c", "l", "a", "s", "s", "i", "c">>, <<"b", "o", "g", "u", "s">>}

TargetInputs == {None, << >>, <<"b", "O", "B">>}

ResponseTexts ==
    {None, << >>, <<" ", "\n">>,
     <<"Yo mama so slow, she's still loading Python 2.7!">>,
     <<" ", "\n">> \o <<"Y", "o", " ", "m", "a", "m", "a">> \o <<"\t", " ">>}

RemoteErrors ==
    {Failure("Exception", <<"A", "P", "I", " ", "E", "r", "r", "o", "r", ":", " ", "R", "a", "t", "e", " ", "l", "i", "m", "i", "t", " ", "e", "x", "c", "e", "e", "d", "e", "d", " ", "(", "4", "2", "9", ")">>),
     Failure("ClientError", <<"H", "T", "T", "P", " ", "4", "2", "9">>),
     Failure("ServerError", <<"Q", "u", "O", "T", "A", " ", "e", "x", "h", "a", "u", "s", "t", "e", "d">>),
     Failure("ServerError", <<"r", "a", "t", "e", "-", "l", "i", "m", "i", "t", " ", "q", "u", "o", " ", "t", "a", " ", "4", "2", " ", "9">>),
     Failure("ConnectionError", <<"t", "i", "m", "e", "d", " ", "o", "u", "t">>),
     Failure("Exception", << >>)}

---------------------------------------------------------------------------
VARIABLES
    model_name,   \* self.model_name
    remote_down,  \* the text-generation service fails every call
    pc,           \* per caller: "idle", "awaiting" (the remote call is in flight), "returned"
    args,         \* per caller: the arguments of its generate_joke invocation
    flavor,       \* per caller: the local `flavor` after line 95
    meanness,     \* per caller: the local `meanness` after line 97
    nerdiness,    \* per caller: the local `nerdiness` after line 98
    prompt,       \* per caller: the local `prompt`
    requests,     \* per caller: the requests the invocation has issued
    outcome,      \* per caller: what the remote call did
    result,       \* per caller: the value generate_joke returned
    raised,       \* per caller: the exception generate_joke propagated
    batch,        \* per caller: the frame of its generate_batch invocation
    random_frame, \* per caller: the frame of its random_joke invocation
    class_flavors,\* the list object bound to YoMamaGenerator.FLAVORS
    listed,       \* per caller: the list it got from list_flavors()
    environ,      \* os.environ after load_dotenv(): name -> value, None when unset
    stores,       \* the secret stores: Doppler, AWS Secrets Manager, Vault
    lookup,       \* the last get_secret call and what it returned
    config,       \* config.py's _config_instance and the reads made through it
    cli,          \* the run of main(): arguments, mode, exit code
    chat          \* per chat platform: the command being handled

generator_vars == <<model_name, remote_down, pc, args, flavor, meanness, nerdiness,
                    prompt, requests, outcome, result, raised, batch>>

catalog_vars == <<random_frame, class_flavors, listed>>

app_vars == <<config, cli, chat>>

platform_vars == <<environ, stores, lookup, app_vars>>

\* What the generator's methods for jokes never touch.
surroundings == <<catalog_vars, platform_vars>>

vars == <<model_name, remote_down, pc, args, flavor, meanness, nerdiness,
          prompt, requests, outcome, result, raised, batch, surroundings>>

NoArgs == [flavor |-> None, meanness |-> 0, nerdiness |-> 0, target_name |-> None]

\* No generate_batch invocation: bpc is "none", "loop" (in the for loop),
\* "done" (returned) or "raised" (left by an exception); i counts the iterations completed; calls records how
\* each generate_joke invocation of the loop ended, in invocation order.
NoBatch ==
    [bpc |-> "none", count |-> 0, i |-> 0, jokes |-> << >>, calls |-> << >>,
     flavor |-> None, meanness |-> 0, nerdiness |-> 0, target_name |-> None]

\* No random_joke invocation.
NoRandom == [active |-> FALSE, flavor |-> None, meanness |-> 0, nerdiness |-> 0]

\* No list obtained from list_flavors().  A list a caller holds is either the
\* very list object bound to the class attribute or a list of its own; fresh
\* says the caller has not changed it since list_flavors() returned it, and
\* modified that the caller has changed some list it was given before.
NoList ==
    [held |-> FALSE, is_class_list |-> FALSE, fresh |-> FALSE, modified |-> FALSE,
     items |-> << >>]

\* Names of environment variables and of secrets.
DOPPLER_TOKEN == <<"D", "O", "P", "P", "L", "E", "R", "_", "T", "O", "K", "E", "N">>
SECRETS_MANAGER == <<"S", "E", "C", "R", "E", "T", "S", "_", "M", "A", "N", "A", "G", "E", "R">>
SECRETS_VAULT_URL == <<"S", "E", "C", "R", "E", "T", "S", "_", "V", "A", "U", "L", "T", "_", "U", "R", "L">>
SECRETS_VAULT_TOKEN == <<"S", "E", "C", "R", "E", "T", "S", "_", "V", "A", "U", "L", "T", "_", "T", "O", "K", "E", "N">>
GEMINI_API_KEY == <<"G", "E", "M", "I", "N", "I", "_", "A", "P", "I", "_", "K", "E", "Y">>
DISCORD_BOT_TOKEN == <<"D", "I", "S", "C", "O", "R", "D", "_", "B", "O", "T", "_", "T", "O", "K", "E", "N">>

GEMINI_MODEL == <<"G", "E", "M", "I", "N", "I", "_", "M", "O", "D", "E", "L">>
DEFAULT_FLAVOR == <<"D", "E", "F", "A", "U", "L", "T", "_", "F", "L", "A", "V", "O", "R">>
DEFAULT_MEANNESS == <<"D", "E", "F", "A", "U", "L", "T", "_", "M", "E", "A", "N", "N", "E", "S", "S">>
DEFAULT_NERDINESS == <<"D", "E", "F", "A", "U", "L", "T", "_", "N", "E", "R", "D", "I", "N", "E", "S", "S">>

EnvNames ==
    {DOPPLER_TOKEN, SECRETS_MANAGER, SECRETS_VAULT_URL, SECRETS_VAULT_TOKEN,
     GEMINI_API_KEY, DISCORD_BOT_TOKEN}

\* A dict without entries.
EmptyDict == << >>

\* A store: it answers ("ok"), cannot be reached ("unreachable"), refuses the
\* credentials ("unauthenticated") or its client library is not installed
\* ("no_library"); path is the name of the one secret it keeps (unused for
\* Doppler) and secrets that secret's name -> value entries.
Store(status, path, secrets) == [status |-> status, path |-> path, secrets |-> secrets]

\* No get_secret call made.
NoLookup ==
    [via |-> "none", key |-> None, platform |-> None, default |-> None,
     aws_secret_name |-> None, vault_secret_path |-> None, doppler_prefix |-> None,
     value |-> None, raised |-> NoException]

\* The settings the Config properties read (config.py, lines 122-145).
Settings ==
    {"gemini_api_key", "gemini_model", "default_flavor", "default_meanness",
     "default_nerdiness"}

IntSettings == {"default_meanness", "default_nerdiness"}

\* No value read yet: None for a str setting, 0 for an int setting.
NoValue(setting) == IF setting \in IntSettings THEN 0 ELSE None

NoReads == [setting \in Settings |->
               [read |-> FALSE, count |-> 0,
                first |-> NoValue(setting), last |-> NoValue(setting)]]

\* _config_instance is None (instance 0) and no Config has been created;
\* handles are the objects get_config() has returned since the last reset,
\* reads the number of reads of each setting through the shared object with
\* the first and the latest value read.
NoConfig == [instance |-> 0, created |-> 0, handles |-> {}, reads |-> NoReads]

\* The parsed command line without any option: a store_true option is FALSE,
\* an absent --batch, --meanness or --nerdiness (None) is 0, an absent
\* --flavor or --target is None; bot stands for --discord and --matrix.
NoArgv ==
    [flavors |-> FALSE, bot |-> FALSE, random |-> FALSE, batch |-> 0,
     flavor |-> None, meanness |-> 0, nerdiness |-> 0, target |-> None]

\* interactive_mode has not started: its four current settings.
NoSession == [flavor |-> None, meanness |-> 0, nerdiness |-> 0, target |-> None]

\* main() has not run.  line is the last line interactive_mode read, feedback
\* what it printed for it, pending the generator method the line asked for,
\* count the count of a batch and caught the exception that ended the last
\* pass through the loop body.  state is "idle", "serving" (a bot runs), "generating"
\* (the generator exists and the mode runs) or "done" (main has returned
\* exit_code).
NoCli ==
    [state |-> "idle", mode |-> "none", exit_code |-> -1, missing |-> << >>,
     generator_built |-> FALSE, api_key |-> None, listing |-> FALSE,
     argv |-> NoArgv, session |-> NoSession, line |-> None, feedback |-> "none",
     pending |-> "none", count |-> 0, caught |-> NoException]

\* No command is being handled.  state is "idle", "accepted" (the handler goes
\* on to the generator), "rejected" (the handler has answered with a range
\* error), "failed" (an exception was answered with its text) or "replied"
\* (the joke was sent); has_meanness and has_nerdiness say whether the user
\* gave the level, meanness and nerdiness are the levels the handler holds
\* (0 when it holds none), call the arguments it passes to generate_joke.
\* For the Matrix bot, whose handler parses the message itself: event is the
\* room message (state "ignored" when the handler returns without a word),
\* fails says whether room_send raises while it is handled, sent lists the
\* messages that reached the room, count is the count of a batch, logged the
\* number of "Error handling command" log lines so far and escaped the
\* exception that left the callback (state "crashed").
NoEvent == [sender |-> None, body |-> None]

NoCommand ==
    [command |-> "none", state |-> "idle", reply |-> "none",
     has_meanness |-> FALSE, meanness |-> 0, has_nerdiness |-> FALSE, nerdiness |-> 0,
     call |-> NoArgs, event |-> NoEvent, fails |-> FALSE, sent |-> << >>,
     count |-> 0, logged |-> 0, escaped |-> NoException]

InitApp ==
    /\ config = NoConfig
    /\ cli = NoCli
    /\ chat = [c \in Callers |-> NoCommand]

\* An environment without any of the names and stores without secrets.
InitPlatform ==
    /\ environ = [name \in EnvNames |-> None]
    /\ stores = [src \in {"doppler", "aws", "vault"} |-> Store("ok", None, EmptyDict)]
    /\ lookup = NoLookup
    /\ InitApp

\* The module is imported and nothing else has run.
InitCatalog ==
    /\ random_frame = [c \in Callers |-> NoRandom]
    /\ class_flavors = FLAVORS
    /\ listed = [c \in Callers |-> NoList]

InitSurroundings ==
    /\ InitCatalog
    /\ InitPlatform

\* A constructed generator and no invocation under way.
InitGenerator ==
    /\ model_name \in ModelNames
    /\ batch = [c \in Callers |-> NoBatch]
    /\ pc = [c \in Callers |-> "idle"]
    /\ args = [c \in Callers |-> NoArgs]
    /\ flavor = [c \in Callers |-> None]
    /\ meanness = [c \in Callers |-> 0]
    /\ nerdiness = [c \in Callers |-> 0]
    /\ prompt = [c \in Callers |-> None]
    /\ requests = [c \in Callers |-> << >>]
    /\ outcome = [c \in Callers |-> NoOutcome]
    /\ result = [c \in Callers |-> None]
    /\ raised = [c \in Callers |-> NoException]

Init ==
    /\ InitGenerator
    /\ InitSurroundings
    /\ remote_down = FALSE

\* generate_joke up to the remote call (lines 87-108).
CallGenerateJoke(c, f, m, n, t) ==
    /\ pc[c] = "idle"
    /\ args' = [args EXCEPT ![c] =
                   [flavor |-> f, meanness |-> m, nerdiness |-> n, target_name |-> t]]
    /\ \E fl \in normalized_flavors(f) :
        /\ flavor' = [flavor EXCEPT ![c] = fl]
        /\ meanness' = [meanness EXCEPT ![c] = clamp(m)]
        /\ nerdiness' = [nerdiness EXCEPT ![c] = clamp(n)]
        /\ IF build_prompt_raises(clamp(m), clamp(n))
           THEN /\ pc' = [pc EXCEPT ![c] = "returned"]
                /\ raised' = [raised EXCEPT ![c] = "KeyError"]
                /\ UNCHANGED <<prompt, requests>>
           ELSE IF capitalize_raises(t)
           THEN /\ pc' = [pc EXCEPT ![c] = "returned"]
                /\ raised' = [raised EXCEPT ![c] = "AttributeError"]
                /\ UNCHANGED <<prompt, requests>>
           ELSE /\ pc' = [pc EXCEPT ![c] = "awaiting"]
                /\ prompt' = [prompt EXCEPT ![c] = build_prompt(fl, clamp(m), clamp(n), t)]
                /\ requests' = [requests EXCEPT ![c] =
                                   issue_request(requests[c], model_name,
                                                 build_prompt(fl, clamp(m), clamp(n), t))]
                /\ UNCHANGED raised
    /\ UNCHANGED <<model_name, remote_down, outcome, result, batch>>
    /\ UNCHANGED surroundings

\* The rest of generate_joke once the remote call has ended with `out`
\* (lines 109-131).
FinishGenerateJoke(c, out) ==
    /\ pc[c] = "awaiting"
    /\ outcome' = [outcome EXCEPT ![c] = out]
    /\ \E e \in joke_endings(flavor[c], out) :
        /\ result' = [result EXCEPT ![c] = e.result]
        /\ raised' = [raised EXCEPT ![c] = e.raised]
    /\ pc' = [pc EXCEPT ![c] = "returned"]
    /\ UNCHANGED <<model_name, remote_down, args, flavor, meanness, nerdiness,
                   prompt, requests, batch>>
    /\ UNCHANGED surroundings

\* The service answers with a response object.
RemoteResponds(c, text) ==
    /\ ~remote_down
    /\ FinishGenerateJoke(c, Response(text))

\* The client call raises.
RemoteFails(c, err) ==
    /\ err.kind = "error"
    /\ FinishGenerateJoke(c, err)

\* A generate_joke that keeps its working values on the generator object:
\* when one invocation ends, the values of every invocation are gone.
FrameDropped_shared(c) ==
    /\ pc' = [pc EXCEPT ![c] = "idle"]
    /\ args' = [args EXCEPT ![c] = NoArgs]
    /\ flavor' = [d \in Callers |-> None]
    /\ meanness' = [meanness EXCEPT ![c] = 0]
    /\ nerdiness' = [nerdiness EXCEPT ![c] = 0]
    /\ prompt' = [d \in Callers |-> None]
    /\ requests' = [requests EXCEPT ![c] = << >>]
    /\ outcome' = [outcome EXCEPT ![c] = NoOutcome]
    /\ result' = [result EXCEPT ![c] = None]
    /\ raised' = [raised EXCEPT ![c] = NoException]

\* The frame of caller c's generate_joke invocation is gone.
FrameDropped(c) ==
    /\ pc' = [pc EXCEPT ![c] = "idle"]
    /\ args' = [args EXCEPT ![c] = NoArgs]
    /\ flavor' = [flavor EXCEPT ![c] = None]
    /\ meanness' = [meanness EXCEPT ![c] = 0]
    /\ nerdiness' = [nerdiness EXCEPT ![c] = 0]
    /\ prompt' = [prompt EXCEPT ![c] = None]
    /\ requests' = [requests EXCEPT ![c] = << >>]
    /\ outcome' = [outcome EXCEPT ![c] = NoOutcome]
    /\ result' = [result EXCEPT ![c] = None]
    /\ raised' = [raised EXCEPT ![c] = NoException]

\* The caller of a single generate_joke has taken the result.
TakeResult(c) ==
    /\ pc[c] = "returned"
    /\ batch[c].bpc = "none"
    /\ FrameDropped(c)
    /\ UNCHANGED <<model_name, remote_down, batch>>
    /\ UNCHANGED surroundings

---------------------------------------------------------------------------
\* generate_batch, lines 234-268.

\* A loop that stops one iteration early.
batch_continues_short(i, count) == i < count - 1

\* Line 256: `for i in range(count)` has another iteration to run.
batch_continues(i, count) == i < count

\* A collection that keeps the last joke only.
collect_joke_overwrites(jokes, res, exc) ==
    IF exc = NoException THEN <<res>> ELSE jokes

\* Lines 257-266: the joke is appended; an invocation that raised is logged
\* and skipped.
collect_joke(jokes, res, exc) ==
    IF exc = NoException THEN Append(jokes, res) ELSE jokes

\* Line 255.
CallGenerateBatch(c, count, f, m, n, t) ==
    /\ pc[c] = "idle"
    /\ batch[c].bpc = "none"
    /\ batch' = [batch EXCEPT ![c] =
                    [bpc |-> "loop", count |-> count, i |-> 0, jokes |-> << >>,
                     calls |-> << >>,
                     flavor |-> f, meanness |-> m, nerdiness |-> n, target_name |-> t]]
    /\ UNCHANGED <<model_name, remote_down, pc, args, flavor, meanness, nerdiness,
                   prompt, requests, outcome, result, raised>>
    /\ UNCHANGED surroundings

\* Lines 256-263: the next iteration invokes generate_joke.
BatchInvokes(c) ==
    /\ batch[c].bpc = "loop"
    /\ batch_continues(batch[c].i, batch[c].count)
    /\ CallGenerateJoke(c, batch[c].flavor, batch[c].meanness, batch[c].nerdiness,
                        batch[c].target_name)

\* Lines 264-266: the invocation has ended.
BatchCollects(c) ==
    /\ batch[c].bpc = "loop"
    /\ pc[c] = "returned"
    /\ batch' = [batch EXCEPT ![c].jokes = collect_joke(@, result[c], raised[c]),
                              ![c].calls = Append(@, [result |-> result[c],
                                                      raised |-> raised[c]]),
                              ![c].i = @ + 1,
                              ![c].bpc = IF raised[c] = NoException \/ except_catches(raised[c])
                                         THEN "loop" ELSE "raised"]
    /\ FrameDropped(c)
    /\ UNCHANGED <<model_name, remote_down>>
    /\ UNCHANGED surroundings

\* Line 268.
BatchReturns(c) ==
    /\ batch[c].bpc = "loop"
    /\ pc[c] = "idle"
    /\ ~batch_continues(batch[c].i, batch[c].count)
    /\ batch' = [batch EXCEPT ![c].bpc = "done"]
    /\ UNCHANGED <<model_name, remote_down, pc, args, flavor, meanness, nerdiness,
                   prompt, requests, outcome, result, raised>>
    /\ UNCHANGED surroundings

\* The caller of generate_batch has taken the list.
TakeBatch(c) ==
    /\ batch[c].bpc = "done"
    /\ batch' = [batch EXCEPT ![c] = NoBatch]
    /\ UNCHANGED <<model_name, remote_down, pc, args, flavor, meanness, nerdiness,
                   prompt, requests, outcome, result, raised>>
    /\ UNCHANGED surroundings

---------------------------------------------------------------------------
\* random_joke, lines 270-280, and list_flavors, lines 282-285.

\* A draw over the whole scale.
random_level_whole_scale == 1..10

\* Lines 277-278: random.randint(3, 7).
random_level == 3..7

\* Lines 276-278: the theme and the levels are drawn.
CallRandomJoke(c) ==
    /\ pc[c] = "idle"
    /\ batch[c].bpc = "none"
    /\ ~random_frame[c].active
    /\ class_flavors # << >>
    /\ \E f \in Range(class_flavors), m \in random_level, n \in random_level :
           random_frame' = [random_frame EXCEPT ![c] =
               [active |-> TRUE, flavor |-> f, meanness |-> m, nerdiness |-> n]]
    /\ UNCHANGED <<model_name, remote_down, pc, args, flavor, meanness, nerdiness,
                   prompt, requests, outcome, result, raised, batch,
                   class_flavors, listed, platform_vars>>

\* Lines 280-284 of random_joke: generate_joke is called without a target.
RandomJokeDelegates(c) ==
    /\ random_frame[c].active
    /\ CallGenerateJoke(c, random_frame[c].flavor, random_frame[c].meanness,
                        random_frame[c].nerdiness, None)

\* random_joke returns what generate_joke returned.
RandomJokeReturns(c) ==
    /\ random_frame[c].active
    /\ pc[c] = "returned"
    /\ FrameDropped(c)
    /\ random_frame' = [random_frame EXCEPT ![c] = NoRandom]
    /\ UNCHANGED <<model_name, remote_down, batch, class_flavors, listed,
                   platform_vars>>

\* A list_flavors that hands out the class attribute's own list.
list_flavors_shares ==
    [held |-> TRUE, is_class_list |-> TRUE, fresh |-> TRUE, modified |-> FALSE,
     items |-> class_flavors]

\* Line 285: `YoMamaGenerator.FLAVORS.copy()`.
list_flavors ==
    [held |-> TRUE, is_class_list |-> FALSE, fresh |-> TRUE, modified |-> FALSE,
     items |-> class_flavors]

\* A caller calls the static method; no instance and no state is needed.
ListFlavors(c) ==
    /\ listed' = [listed EXCEPT ![c] = [list_flavors EXCEPT !.modified = listed[c].modified]]
    /\ UNCHANGED <<model_name, remote_down, pc, args, flavor, meanness, nerdiness,
                   prompt, requests, outcome, result, raised, batch,
                   random_frame, class_flavors, platform_vars>>

\* What a caller can do to a list it holds: pop(), clear() and, once,
\* append(x).
list_changes(items) ==
    ({SubSeq(items, 1, Len(items) - 1), << >>} \ {items})
    \cup (IF <<"b", "o", "g", "u", "s">> \in Range(items) THEN {}
          ELSE {Append(items, <<"b", "o", "g", "u", "s">>)})

\* The caller changes the list it was given; the change is seen through every
\* name the list object is bound to.
CallerModifiesList(c) ==
    /\ listed[c].held
    /\ \E items \in list_changes(listed[c].items) :
        /\ listed' = [listed EXCEPT ![c].items = items, ![c].fresh = FALSE,
                                    ![c].modified = TRUE]
        /\ class_flavors' = IF listed[c].is_class_list THEN items ELSE class_flavors
    /\ UNCHANGED <<model_name, remote_down, pc, args, flavor, meanness, nerdiness,
                   prompt, requests, outcome, result, raised, batch, random_frame,
                   platform_vars>>

---------------------------------------------------------------------------
\* secrets.py: the loaders and get_secret.

\* os.getenv(name)
getenv(name) == IF name \in DOMAIN environ THEN environ[name] ELSE None

\* os.getenv(name, default)
getenv_or(name, default) == IF getenv(name) = None THEN default ELSE getenv(name)

\* A loader that lets the failure of its store escape.
loader_raises_unhandled(status) == status # "ok"

\* Lines 40-45, 77-82 and 141-150: each loader catches ImportError and
\* Exception, so no failure of a store leaves it.
loader_raises(status) == FALSE

\* A Doppler loader that never finds a secret.
load_secrets_from_doppler_nothing(secret_name) == EmptyDict

\* Lines 85-150.  With a prefix the dict is keyed by the lower-cased rest of
\* each matching name, without it by the full names.
load_secrets_from_doppler(secret_name) ==
    IF stores["doppler"].status = "no_library" THEN EmptyDict
    ELSE IF ~truthy(getenv(DOPPLER_TOKEN)) THEN EmptyDict
    ELSE IF stores["doppler"].status # "ok" THEN EmptyDict
    ELSE IF truthy(secret_name)
    THEN LET secrets == stores["doppler"].secrets
             matching == {k \in DOMAIN secrets : startswith(upper(secret_name), upper(k))}
             key_suffix(k) == lower(SubSeq(k, Len(secret_name) + 2, Len(k)))
         IN  [x \in {key_suffix(k) : k \in matching} |->
                 secrets[CHOOSE k \in matching : key_suffix(k) = x]]
    ELSE stores["doppler"].secrets

\* Lines 22-45: get_secret_value fails for a store that does not answer and
\* for a secret name the store does not keep.
load_secrets_from_aws(secret_name) ==
    IF stores["aws"].status # "ok" THEN EmptyDict
    ELSE IF stores["aws"].path # secret_name THEN EmptyDict
    ELSE stores["aws"].secrets

\* Lines 48-82.
load_secrets_from_vault(secret_path) ==
    IF stores["vault"].status = "no_library" THEN EmptyDict
    ELSE IF ~truthy(getenv(SECRETS_VAULT_URL)) \/ ~truthy(getenv(SECRETS_VAULT_TOKEN))
    THEN EmptyDict
    ELSE IF stores["vault"].status # "ok" THEN EmptyDict
    ELSE IF stores["vault"].path # secret_path THEN EmptyDict
    ELSE stores["vault"].secrets

\* A lookup that takes an empty value for a hit.
found_even_empty(d, k) == IF k \in DOMAIN d THEN d[k] ELSE None

\* `if k in d: value = d[k]; if value: return value` (lines 208-212, 216-220,
\* 228-238, 243-253): the value when it is there and truthy, else None.
found(d, k) == IF k \in DOMAIN d /\ truthy(d[k]) THEN d[k] ELSE None

\* Lines 198-200.
env_key_of(key, platform) ==
    IF truthy(platform) THEN upper(platform) \o <<"_">> \o upper(key) ELSE upper(key)

\* Lines 195-271.  An exception anywhere in the body ends in `return default`.
get_secret(key, platform, default, aws_secret_name, vault_secret_path, doppler_prefix) ==
    LET env_key == env_key_of(key, platform)
        doppler_on == truthy(getenv(DOPPLER_TOKEN))
        with_prefix ==
            IF truthy(doppler_prefix)
            THEN found(load_secrets_from_doppler(doppler_prefix), lower(key))
            ELSE None
        direct == found(load_secrets_from_doppler(None), env_key)
        secret_manager == lower(getenv_or(SECRETS_MANAGER, <<"n", "o", "n", "e">>))
        aws_on == secret_manager = <<"a", "w", "s">> /\ truthy(aws_secret_name)
        aws_secrets == load_secrets_from_aws(aws_secret_name)
        vault_on == secret_manager = <<"v", "a", "u", "l", "t">> /\ truthy(vault_secret_path)
        vault_secrets == load_secrets_from_vault(vault_secret_path)
        env_value == getenv(env_key)
    IN  IF doppler_on /\ loader_raises(stores["doppler"].status) THEN default
        ELSE IF doppler_on /\ with_prefix # None THEN with_prefix
        ELSE IF doppler_on /\ direct # None THEN direct
        ELSE IF aws_on /\ loader_raises(stores["aws"].status) THEN default
        ELSE IF aws_on /\ found(aws_secrets, lower(key)) # None
        THEN found(aws_secrets, lower(key))
        ELSE IF aws_on /\ found(aws_secrets, lower(env_key)) # None
        THEN found(aws_secrets, lower(env_key))
        ELSE IF vault_on /\ loader_raises(stores["vault"].status) THEN default
        ELSE IF vault_on /\ found(vault_secrets, lower(key)) # None
        THEN found(vault_secrets, lower(key))
        ELSE IF vault_on /\ found(vault_secrets, lower(env_key)) # None
        THEN found(vault_secrets, lower(env_key))
        ELSE IF truthy(env_value) THEN env_value
        ELSE default

\* A caller calls secrets.get_secret.
GetSecret(call) ==
    /\ lookup' = [via |-> "get_secret", key |-> call.key, platform |-> call.platform,
                  default |-> call.default, aws_secret_name |-> call.aws_secret_name,
                  vault_secret_path |-> call.vault_secret_path,
                  doppler_prefix |-> call.doppler_prefix,
                  value |-> get_secret(call.key, call.platform, call.default,
                                       call.aws_secret_name, call.vault_secret_path,
                                       call.doppler_prefix),
                  raised |-> NoException]
    /\ UNCHANGED <<generator_vars, catalog_vars, environ, stores, app_vars>>

\* config.py, line 67: Config.get_secret(key, default).
Config_get_secret(key, default) == get_secret(key, None, default, None, None, None)

\* A caller calls Config.get_secret.
ConfigGetSecret(key, default) ==
    /\ lookup' = [NoLookup EXCEPT !.via = "Config.get_secret", !.key = key,
                                  !.default = default,
                                  !.value = Config_get_secret(key, default)]
    /\ UNCHANGED <<generator_vars, catalog_vars, environ, stores, app_vars>>

\* The caller has used the value.
TakeSecret ==
    /\ lookup.via # "none"
    /\ lookup' = NoLookup
    /\ UNCHANGED <<generator_vars, catalog_vars, environ, stores, app_vars>>

---------------------------------------------------------------------------
\* config.py: Config and the shared instance.

\* Lines 99-118.
Config_get_int(key, default) ==
    LET value == Config_get_secret(key, None)
    IN  IF value = None THEN default
        ELSE IF int_raises(value) THEN default
        ELSE int_of(value)

\* Lines 122-145: each property resolves the setting when it is read.
property_value(setting) ==
    CASE setting = "gemini_api_key" -> Config_get_secret(GEMINI_API_KEY, None)
      [] setting = "gemini_model" -> Config_get_secret(GEMINI_MODEL, <<"gemini-2.5-flash-lite">>)
      [] setting = "default_flavor" -> Config_get_secret(DEFAULT_FLAVOR, <<"t", "e", "c", "h">>)
      [] setting = "default_meanness" -> Config_get_int(DEFAULT_MEANNESS, 5)
      [] setting = "default_nerdiness" -> Config_get_int(DEFAULT_NERDINESS, 5)

\* A Config that keeps the value of the first read.
read_setting_cached(setting) ==
    IF config.reads[setting].read THEN config.reads[setting].first
    ELSE property_value(setting)

\* Reading a property of the shared Config object.
read_setting(setting) == property_value(setting)

\* A validation that requires no key.
Config_validate_requires_nothing == << >>

\* Lines 152-167: the required keys that resolve to nothing.
Config_validate ==
    IF ~truthy(Config_get_secret(GEMINI_API_KEY, None)) THEN <<GEMINI_API_KEY>> ELSE << >>

\* Lines 174-179: the config record after get_config().
get_config ==
    IF config.instance = 0
    THEN [config EXCEPT !.instance = config.created + 1, !.created = @ + 1,
                        !.handles = @ \cup {config.created + 1}]
    ELSE [config EXCEPT !.handles = @ \cup {config.instance}]

\* The most Config objects a run creates.
MaxConfigs == 2

\* The most reads of one setting in one lifetime of the shared object.
MaxReads == 2

\* A caller calls get_config().
GetConfig ==
    /\ config.instance # 0 \/ config.created < MaxConfigs
    /\ config' = get_config
    /\ UNCHANGED <<generator_vars, catalog_vars, environ, stores, lookup, cli, chat>>

\* Lines 182-185: reset_config(); a new lifetime of the shared object starts.
ResetConfig ==
    /\ config.instance # 0
    /\ config' = [config EXCEPT !.instance = 0, !.handles = {}, !.reads = NoReads]
    /\ UNCHANGED <<generator_vars, catalog_vars, environ, stores, lookup, cli, chat>>

\* A caller reads a setting through the shared object.
ReadSetting(setting) ==
    /\ config.instance # 0
    /\ config.instance \in config.handles
    /\ config.reads[setting].count < MaxReads
    /\ config' = [config EXCEPT
           !.reads[setting] =
               [read |-> TRUE,
                count |-> @.count + 1,
                first |-> IF @.read THEN @.first ELSE read_setting(setting),
                last |-> read_setting(setting)]]
    /\ UNCHANGED <<generator_vars, catalog_vars, environ, stores, lookup, cli, chat>>

\* The environment changes while the process runs: a name is set, changed or
\* unset.
EnvironChanges(name, value) ==
    /\ name \in DOMAIN environ
    /\ environ[name] # value
    /\ environ' = [environ EXCEPT ![name] = value]
    /\ UNCHANGED <<generator_vars, catalog_vars, stores, lookup, app_vars>>

---------------------------------------------------------------------------
\* The CLI's single-joke path: one caller, one invocation at a time.

CliCalls ==
    /\ pc["cli"] = "idle"
    /\ batch["cli"].bpc = "none"
    /\ \E f \in FlavorInputs, p \in LevelPairs, t \in TargetInputs :
           CallGenerateJoke("cli", f, p[1], p[2], t)

CliRemote ==
    /\ pc["cli"] = "awaiting"
    /\ \/ \E text \in ResponseTexts : RemoteResponds("cli", text)
       \/ \E err \in RemoteErrors : RemoteFails("cli", err)

Next ==
    \/ CliCalls
    \/ CliRemote
    \/ TakeResult("cli")

Spec == Init /\ [][Next]_vars

---------------------------------------------------------------------------
\* Two chat platforms composing at once (main.py starts the Discord thread and
\* the Matrix event loop together).

ChatCallers == {"discord", "matrix"}

ComposeFlavorInputs == {None, << >>, <<"t", "e", "c", "h">>, <<"T", "e", "c", "h">>}

ComposeLevelInputs == {5, 10 + LevelSlack}

ComposeTargetInputs == {None, <<"b", "O", "B">>}

ChatCalls(c) ==
    /\ pc[c] = "idle"
    /\ \E f \in ComposeFlavorInputs, m \in ComposeLevelInputs, t \in ComposeTargetInputs :
           CallGenerateJoke(c, f, m, 5, t)

ChatRemote(c) ==
    /\ pc[c] = "awaiting"
    /\ \/ RemoteResponds(c, <<"Yo mama so slow, she's still loading Python 2.7!">>)
       \/ RemoteFails(c, Failure("ConnectionError", <<"t", "i", "m", "e", "d", " ", "o", "u", "t">>))

NextCompose ==
    \E c \in ChatCallers :
        \/ ChatCalls(c)
        \/ ChatRemote(c)
        \/ TakeResult(c)

SpecCompose == Init /\ [][NextCompose]_vars

---------------------------------------------------------------------------
\* The CLI's batch path against a service that is up or down for the whole run.

\* The largest batch size tried.
MaxBatchCount == 3

BatchCounts == 0..MaxBatchCount

BatchFlavorInputs == {None, <<"t", "e", "c", "h">>}

BatchErrors ==
    {Failure("Exception", <<"A", "P", "I", " ", "E", "r", "r", "o", "r", ":", " ", "R", "a", "t", "e", " ", "l", "i", "m", "i", "t", " ", "e", "x", "c", "e", "e", "d", "e", "d", " ", "(", "4", "2", "9", ")">>),
     Failure("ConnectionError", <<"t", "i", "m", "e", "d", " ", "o", "u", "t">>)}

BatchResponseTexts == {None, <<"Yo mama so slow, she's still loading Python 2.7!">>}

InitBatch ==
    /\ InitGenerator
    /\ InitSurroundings
    /\ remote_down \in BOOLEAN

BatchCalls ==
    /\ pc["cli"] = "idle"
    /\ batch["cli"].bpc = "none"
    /\ \E count \in BatchCounts, f \in BatchFlavorInputs :
           CallGenerateBatch("cli", count, f, 5, 5, None)

BatchRemote ==
    /\ pc["cli"] = "awaiting"
    /\ \/ \E text \in BatchResponseTexts : RemoteResponds("cli", text)
       \/ \E err \in BatchErrors : RemoteFails("cli", err)

NextBatch ==
    \/ BatchCalls
    \/ BatchInvokes("cli")
    \/ BatchRemote
    \/ BatchCollects("cli")
    \/ BatchReturns("cli")
    \/ TakeBatch("cli")

SpecBatch == InitBatch /\ [][NextBatch]_vars

---------------------------------------------------------------------------
\* The readers of the theme catalog: the CLI's random mode and a chat command
\* that lists the themes.

CatalogRemote ==
    /\ pc["cli"] = "awaiting"
    /\ \/ RemoteResponds("cli", <<"Yo mama so slow, she's still loading Python 2.7!">>)
       \/ RemoteFails("cli", Failure("ConnectionError", <<"t", "i", "m", "e", "d", " ", "o", "u", "t">>))

NextCatalog ==
    \/ CallRandomJoke("cli")
    \/ RandomJokeDelegates("cli")
    \/ CatalogRemote
    \/ RandomJokeReturns("cli")
    \/ ListFlavors("matrix")
    \/ CallerModifiesList("matrix")

SpecCatalog == Init /\ [][NextCatalog]_vars

---------------------------------------------------------------------------
\* Secret lookups against every combination of environment and stores.

StoreStatuses == {"ok", "unreachable", "unauthenticated", "no_library"}

\* The secret name and path the deployment keeps its secrets under.
AwsSecretName == <<"prod/yomama">>
VaultSecretPath == <<"secret/data/yomama">>

\* What Doppler can hold: nothing, empty values, values.
DopplerContents ==
    {EmptyDict,
     GEMINI_API_KEY :> << >> @@ DISCORD_BOT_TOKEN :> << >>,
     GEMINI_API_KEY :> <<"doppler-key">> @@ DISCORD_BOT_TOKEN :> <<"doppler-token">>}

\* What the AWS secret can hold; its keys are lower-case, the bot token under
\* its full name.
AwsContents ==
    {EmptyDict,
     lower(GEMINI_API_KEY) :> << >> @@ lower(DISCORD_BOT_TOKEN) :> << >>,
     lower(GEMINI_API_KEY) :> <<"aws-key">> @@ lower(DISCORD_BOT_TOKEN) :> <<"aws-token">>}

\* What the Vault secret can hold; the bot token under its short name.
VaultContents ==
    {EmptyDict,
     lower(GEMINI_API_KEY) :> << >> @@ <<"b", "o", "t", "_", "t", "o", "k", "e", "n">> :> << >>,
     lower(GEMINI_API_KEY) :> <<"vault-key">> @@ <<"b", "o", "t", "_", "t", "o", "k", "e", "n">> :> <<"vault-token">>}

\* A store that answers holds any of the contents; one that fails holds the
\* values all the same.
StoreStates(path, contents) ==
    {Store("ok", path, s) : s \in contents}
    \cup {Store(st, path, CHOOSE s \in contents :
                              s # EmptyDict /\ \A k \in DOMAIN s : s[k] # << >>) :
              st \in StoreStatuses \ {"ok"}}

SecretManagerSettings == {None, <<"a", "w", "s">>, <<"V", "a", "u", "l", "t">>}

InitSecrets ==
    /\ InitGenerator
    /\ model_name = "gemini-2.5-flash-lite"
    /\ InitCatalog
    /\ remote_down = FALSE
    /\ lookup = NoLookup
    /\ InitApp
    /\ \E token \in {None, <<"dp.st.dev.token">>},
          manager \in SecretManagerSettings,
          vault_token \in {None, <<"hvs.token">>},
          api_key \in {None, << >>, <<"env-key">>},
          bot_token \in {None, <<"env-token">>} :
        environ = (DOPPLER_TOKEN :> token @@ SECRETS_MANAGER :> manager
                   @@ SECRETS_VAULT_URL :> <<"https://vault.example:8200">>
                   @@ SECRETS_VAULT_TOKEN :> vault_token
                   @@ GEMINI_API_KEY :> api_key @@ DISCORD_BOT_TOKEN :> bot_token)
    /\ \E d \in StoreStates(None, DopplerContents),
          a \in StoreStates(AwsSecretName, AwsContents),
          v \in StoreStates(VaultSecretPath, VaultContents) :
        stores = ("doppler" :> d @@ "aws" :> a @@ "vault" :> v)

SecretDefaults == {None, <<"built-in default">>}

\* The call shapes of the docstring of get_secret (lines 182-193): the key
\* alone, the key with the secret manager names, and a platform key with all
\* names.
SecretCalls ==
    {[key |-> GEMINI_API_KEY, platform |-> None, default |-> d,
      aws_secret_name |-> None, vault_secret_path |-> None, doppler_prefix |-> None] :
         d \in SecretDefaults}
    \cup {[key |-> GEMINI_API_KEY, platform |-> None, default |-> None,
           aws_secret_name |-> AwsSecretName, vault_secret_path |-> VaultSecretPath,
           doppler_prefix |-> None],
          [key |-> <<"b", "o", "t", "_", "t", "o", "k", "e", "n">>, platform |-> <<"d", "i", "s", "c", "o", "r", "d">>,
           default |-> <<"built-in default">>,
           aws_secret_name |-> AwsSecretName, vault_secret_path |-> VaultSecretPath,
           doppler_prefix |-> <<"D", "I", "S", "C", "O", "R", "D">>]}

CallsGetSecret ==
    /\ lookup.via = "none"
    /\ \E call \in SecretCalls : GetSecret(call)

CallsConfigGetSecret ==
    /\ lookup.via = "none"
    /\ \E d \in SecretDefaults : ConfigGetSecret(GEMINI_API_KEY, d)

NextSecrets ==
    \/ CallsGetSecret
    \/ CallsConfigGetSecret
    \/ TakeSecret

SpecSecrets == InitSecrets /\ [][NextSecrets]_vars

---------------------------------------------------------------------------
\* The shared configuration read while the environment changes.

\* The values the environment can give each name.
ConfigEnvValues ==
    GEMINI_API_KEY :> {None, <<"env-key">>, <<"rotated-key">>}
    @@ DEFAULT_MEANNESS :> {None, <<"7">>}
    @@ GEMINI_MODEL :> {None}
    @@ DEFAULT_FLAVOR :> {None}

InitConfig ==
    /\ InitGenerator
    /\ model_name = "gemini-2.5-flash-lite"
    /\ InitCatalog
    /\ remote_down = FALSE
    /\ lookup = NoLookup
    /\ InitApp
    /\ stores = [src \in {"doppler", "aws", "vault"} |-> Store("ok", None, EmptyDict)]
    /\ environ \in [DOMAIN ConfigEnvValues -> {None, <<"env-key">>, <<"7">>}]
    /\ \A name \in DOMAIN environ : environ[name] \in ConfigEnvValues[name]

\* The settings read here: a str setting that changes, two that keep their
\* default, and an int setting that changes.
SettingsRead == {"gemini_api_key", "gemini_model", "default_flavor", "default_meanness"}

NextConfig ==
    \/ GetConfig
    \/ ResetConfig
    \/ \E setting \in SettingsRead : ReadSetting(setting)
    \/ \E name \in DOMAIN ConfigEnvValues :
           \E value \in ConfigEnvValues[name] : EnvironChanges(name, value)

SpecConfig == InitConfig /\ [][NextConfig]_vars

---------------------------------------------------------------------------
\* The batch path with targets of every kind a caller can pass, a value that
\* is no str included.

BatchTargetInputs == {None, NotAStr, <<"b", "O", "B">>}

BatchTargetCalls ==
    /\ pc["cli"] = "idle"
    /\ batch["cli"].bpc = "none"
    /\ \E count \in BatchCounts, t \in BatchTargetInputs :
           CallGenerateBatch("cli", count, <<"t", "e", "c", "h">>, 5, 5, t)

NextBatchTargets ==
    \/ BatchTargetCalls
    \/ BatchInvokes("cli")
    \/ BatchRemote
    \/ BatchCollects("cli")
    \/ BatchReturns("cli")
    \/ TakeBatch("cli")

SpecBatchTargets == InitBatch /\ [][NextBatchTargets]_vars

---------------------------------------------------------------------------
\* main.py: main() and interactive_mode().

\* Lines 334-362: the mode main runs once the generator exists.
main_mode(argv) ==
    IF argv.random THEN "random"
    ELSE IF argv.batch # 0 THEN "batch"
    ELSE IF truthy(argv.flavor) \/ argv.meanness # 0 \/ argv.nerdiness # 0
            \/ truthy(argv.target)
    THEN "single"
    ELSE "interactive"

\* `args.flavor or config.default_flavor`
flavor_or_default(f) == IF truthy(f) THEN f ELSE property_value("default_flavor")

\* `args.meanness or config.default_meanness`, and the same for nerdiness.
level_or_default(level, setting) == IF level # 0 THEN level ELSE property_value(setting)

\* The exit code of main once its mode has ended: 0, or 1 from the
\* interpreter when an exception left main.
exit_code_after(exc) == IF exc = NoException THEN 0 ELSE 1

\* interactive_mode, lines 60-63: the current settings start as the
\* configured defaults and without a target.
default_session ==
    [flavor |-> property_value("default_flavor"),
     meanness |-> property_value("default_meanness"),
     nerdiness |-> property_value("default_nerdiness"),
     target |-> None]

\* Lines 271-331: main() from get_config() to the generator.  --flavors is
\* answered first, then the bots are started, then the configuration is
\* validated, and only then the generator is constructed; constructs says
\* whether the constructor returns or raises.
MainStarts(argv, constructs) ==
    /\ cli.state = "idle"
    /\ config' = get_config
    /\ IF argv.flavors
       THEN /\ cli' = [NoCli EXCEPT !.argv = argv, !.state = "done", !.mode = "flavors",
                                    !.listing = TRUE, !.exit_code = 0]
            /\ listed' = [listed EXCEPT
                   !["cli"] = [list_flavors EXCEPT !.modified = listed["cli"].modified]]
            /\ UNCHANGED model_name
       ELSE IF argv.bot
       THEN /\ cli' = [NoCli EXCEPT !.argv = argv, !.state = "serving", !.mode = "bot"]
            /\ UNCHANGED <<listed, model_name>>
       ELSE IF Config_validate # << >>
       THEN /\ cli' = [NoCli EXCEPT !.argv = argv, !.state = "done", !.exit_code = 1,
                                    !.missing = Config_validate]
            /\ UNCHANGED <<listed, model_name>>
       ELSE IF ~constructs
       THEN /\ cli' = [NoCli EXCEPT !.argv = argv, !.state = "done", !.exit_code = 1]
            /\ UNCHANGED <<listed, model_name>>
       ELSE /\ cli' = [NoCli EXCEPT !.argv = argv, !.state = "generating",
                                    !.mode = main_mode(argv),
                                    !.generator_built = TRUE,
                                    !.api_key = property_value("gemini_api_key"),
                                    !.session = IF main_mode(argv) = "interactive"
                                                THEN default_session ELSE NoSession]
            /\ model_name' = Head(property_value("gemini_model"))
            /\ UNCHANGED listed
    /\ UNCHANGED <<remote_down, pc, args, flavor, meanness, nerdiness, prompt, requests,
                   outcome, result, raised, batch, random_frame, class_flavors,
                   environ, stores, lookup, chat>>

\* Line 337: generator.random_joke().
MainRandomJoke ==
    /\ cli.state = "generating"
    /\ cli.mode = "random"
    /\ CallRandomJoke("cli")

MainRandomDelegates ==
    /\ cli.state = "generating"
    /\ cli.mode = "random"
    /\ RandomJokeDelegates("cli")

\* Lines 338 and 362: the joke is printed and main returns.
MainRandomPrinted ==
    /\ cli.state = "generating"
    /\ cli.mode = "random"
    /\ random_frame["cli"].active
    /\ pc["cli"] = "returned"
    /\ cli' = [cli EXCEPT !.state = "done", !.exit_code = exit_code_after(raised["cli"])]
    /\ FrameDropped("cli")
    /\ random_frame' = [random_frame EXCEPT !["cli"] = NoRandom]
    /\ UNCHANGED <<model_name, remote_down, batch, class_flavors, listed,
                   environ, stores, lookup, config, chat>>

\* Lines 343-349: generator.generate_batch(...).
MainBatch ==
    /\ cli.state = "generating"
    /\ cli.mode = "batch"
    /\ CallGenerateBatch("cli", cli.argv.batch, flavor_or_default(cli.argv.flavor),
                         level_or_default(cli.argv.meanness, "default_meanness"),
                         level_or_default(cli.argv.nerdiness, "default_nerdiness"),
                         cli.argv.target)

MainBatchLoop ==
    /\ cli.state = "generating"
    /\ cli.mode = "batch"
    /\ \/ BatchInvokes("cli")
       \/ BatchCollects("cli")
       \/ BatchReturns("cli")

\* Lines 350 and 362: the jokes are printed and main returns.
MainBatchPrinted ==
    /\ cli.state = "generating"
    /\ cli.mode = "batch"
    /\ batch["cli"].bpc \in {"done", "raised"}
    /\ cli' = [cli EXCEPT !.state = "done",
                          !.exit_code = IF batch["cli"].bpc = "done" THEN 0 ELSE 1]
    /\ batch' = [batch EXCEPT !["cli"] = NoBatch]
    /\ UNCHANGED <<model_name, remote_down, pc, args, flavor, meanness, nerdiness,
                   prompt, requests, outcome, result, raised, catalog_vars,
                   environ, stores, lookup, config, chat>>

\* Lines 354-359: generator.generate_joke(...) with the options given.
MainSingleJoke ==
    /\ cli.state = "generating"
    /\ cli.mode = "single"
    /\ CallGenerateJoke("cli", flavor_or_default(cli.argv.flavor),
                        level_or_default(cli.argv.meanness, "default_meanness"),
                        level_or_default(cli.argv.nerdiness, "default_nerdiness"),
                        cli.argv.target)

\* Lines 360 and 362: the joke is printed and main returns.
MainJokePrinted ==
    /\ cli.state = "generating"
    /\ cli.mode = "single"
    /\ pc["cli"] = "returned"
    /\ cli' = [cli EXCEPT !.state = "done", !.exit_code = exit_code_after(raised["cli"])]
    /\ FrameDropped("cli")
    /\ UNCHANGED <<model_name, remote_down, batch, catalog_vars,
                   environ, stores, lookup, config, chat>>

\* interactive_mode, lines 74-175.

\* A level check that lets every int pass.
accepts_level_any(value) == TRUE

\* Lines 113 and 125: `1 <= new_meanness <= 10`.
accepts_level(value) == 1 <= value /\ value <= 10

\* A change of one setting that puts the others back to the defaults.
changed_session_resets(session, setting, value) ==
    [default_session EXCEPT ![setting] = value]

\* Lines 106, 114, 126 and 136-140: the named current setting is assigned.
changed_session(session, setting, value) == [session EXCEPT ![setting] = value]

\* A loop that gives up on every exception.
loop_after_gives_up(cls) == IF cls = NoException THEN "continue" ELSE "break"

\* Lines 171-175: what the loop does after the try block: `except
\* KeyboardInterrupt` breaks, `except Exception` prints the error and lets the
\* loop go on, anything else leaves interactive_mode.
loop_after(cls) ==
    IF cls = NoException THEN "continue"
    ELSE IF cls = "KeyboardInterrupt" THEN "break"
    ELSE IF except_catches(cls) THEN "continue"
    ELSE "propagate"

\* The cli record once the try block has ended with exception cls (or none)
\* and printed fb.
after_command(record, fb, cls) ==
    IF loop_after(cls) = "continue"
    THEN [record EXCEPT !.feedback = IF cls = NoException THEN fb ELSE "error",
                        !.pending = "none", !.count = 0, !.caught = cls]
    ELSE [record EXCEPT !.feedback = IF loop_after(cls) = "break" THEN "interrupted"
                                     ELSE "traceback",
                        !.pending = "none", !.count = 0, !.caught = cls,
                        !.state = "done",
                        !.exit_code = IF loop_after(cls) = "break" THEN 0 ELSE 1]

\* Lines 76-169: the cli record after the line read has been handled up to
\* the point where a generator method is called.
interactive_command(line) ==
    LET user_input == strip(line)
        rest == strip(SubSeq(user_input, 3, Len(user_input)))
        read == [cli EXCEPT !.line = line, !.caught = NoException]
        said(fb) == [read EXCEPT !.feedback = fb]
        asks(method, count) ==
            [read EXCEPT !.feedback = "generating", !.pending = method, !.count = count]
        sets(setting, value, fb) ==
            [read EXCEPT !.feedback = fb,
                         !.session = changed_session(cli.session, setting, value)]
    IN  IF user_input = << >> THEN asks("joke", 0)
        ELSE IF lower(user_input) = <<"q", "u", "i", "t">>
        THEN [said("bye") EXCEPT !.state = "done", !.exit_code = 0]
        ELSE IF lower(user_input) = <<"f", "l", "a", "v", "o", "r", "s">> THEN said("flavors")
        ELSE IF lower(user_input) = <<"s", "e", "t", "t", "i", "n", "g", "s">>
        THEN said("settings")
        ELSE IF lower(user_input) = <<"r">> THEN asks("random", 0)
        ELSE IF startswith(<<"f", " ">>, user_input)
        THEN IF lower(rest) \in Range(list_flavors.items)
             THEN sets("flavor", lower(rest), "flavor_set")
             ELSE said("unknown_flavor")
        ELSE IF startswith(<<"m", " ">>, user_input)
        THEN IF int_raises(rest) THEN said("invalid_number")
             ELSE IF accepts_level(int_of(rest))
             THEN sets("meanness", int_of(rest), "meanness_set")
             ELSE said("meanness_range")
        ELSE IF startswith(<<"n", " ">>, user_input)
        THEN IF int_raises(rest) THEN said("invalid_number")
             ELSE IF accepts_level(int_of(rest))
             THEN sets("nerdiness", int_of(rest), "nerdiness_set")
             ELSE said("nerdiness_range")
        ELSE IF startswith(<<"t", " ">>, user_input)
        THEN IF lower(rest) \in {<<"n", "o", "n", "e">>, <<"r", "e", "s", "e", "t">>}
             THEN sets("target", None, "target_reset")
             ELSE sets("target", rest, "target_set")
        ELSE IF startswith(<<"b", " ">>, user_input)
        THEN IF int_raises(rest) THEN said("invalid_number")
             ELSE IF 1 <= int_of(rest) /\ int_of(rest) <= 20
             THEN asks("batch", int_of(rest))
             ELSE said("count_range")
        ELSE said("unknown_command")

\* The loop waits at its prompt.
AtPrompt ==
    /\ cli.state = "generating"
    /\ cli.mode = "interactive"
    /\ cli.pending = "none"

\* Lines 76-169: input() returns a line and the command is handled; the
\* `flavors` command gets its list from list_flavors().
InteractiveReads(line) ==
    /\ AtPrompt
    /\ cli' = interactive_command(line)
    /\ listed' = IF lower(strip(line)) = <<"f", "l", "a", "v", "o", "r", "s">>
                 THEN [listed EXCEPT
                          !["cli"] = [list_flavors EXCEPT !.modified = listed["cli"].modified]]
                 ELSE listed
    /\ UNCHANGED <<generator_vars, random_frame, class_flavors,
                   environ, stores, lookup, config, chat>>

\* Line 76 and lines 171-175: input() raises, EOFError at the end of the
\* input or KeyboardInterrupt.
InteractiveReadRaises(cls) ==
    /\ AtPrompt
    /\ cli' = after_command([cli EXCEPT !.line = None], "none", cls)
    /\ UNCHANGED <<generator_vars, catalog_vars, environ, stores, lookup, config, chat>>

\* Lines 80-85: an empty line generates a joke with the current settings.
InteractiveEnter ==
    /\ cli.state = "generating"
    /\ cli.mode = "interactive"
    /\ cli.pending = "joke"
    /\ CallGenerateJoke("cli", cli.session.flavor, cli.session.meanness,
                        cli.session.nerdiness, cli.session.target)

\* Lines 86 and 171-175: the joke is printed, or the exception is handled.
InteractivePrinted ==
    /\ cli.state = "generating"
    /\ cli.mode = "interactive"
    /\ cli.pending = "joke"
    /\ pc["cli"] = "returned"
    /\ cli' = after_command(cli, "joke", raised["cli"])
    /\ FrameDropped("cli")
    /\ UNCHANGED <<model_name, remote_down, batch, catalog_vars,
                   environ, stores, lookup, config, chat>>

\* Lines 102-105: `r` asks for a random joke.
InteractiveRandom ==
    /\ cli.state = "generating"
    /\ cli.mode = "interactive"
    /\ cli.pending = "random"
    /\ \/ CallRandomJoke("cli")
       \/ RandomJokeDelegates("cli")

InteractiveRandomPrinted ==
    /\ cli.state = "generating"
    /\ cli.mode = "interactive"
    /\ cli.pending = "random"
    /\ random_frame["cli"].active
    /\ pc["cli"] = "returned"
    /\ cli' = after_command(cli, "joke", raised["cli"])
    /\ FrameDropped("cli")
    /\ random_frame' = [random_frame EXCEPT !["cli"] = NoRandom]
    /\ UNCHANGED <<model_name, remote_down, batch, class_flavors, listed,
                   environ, stores, lookup, config, chat>>

\* Lines 152-162: `b <count>` generates a batch with the current settings.
InteractiveBatch ==
    /\ cli.state = "generating"
    /\ cli.mode = "interactive"
    /\ cli.pending = "batch"
    /\ \/ CallGenerateBatch("cli", cli.count, cli.session.flavor, cli.session.meanness,
                            cli.session.nerdiness, cli.session.target)
       \/ BatchInvokes("cli")
       \/ BatchCollects("cli")
       \/ BatchReturns("cli")

InteractiveBatchPrinted ==
    /\ cli.state = "generating"
    /\ cli.mode = "interactive"
    /\ cli.pending = "batch"
    /\ batch["cli"].bpc \in {"done", "raised"}
    /\ cli' = after_command(cli, "jokes",
                            IF batch["cli"].bpc = "done" THEN NoException
                            ELSE batch["cli"].calls[Len(batch["cli"].calls)].raised)
    /\ batch' = [batch EXCEPT !["cli"] = NoBatch]
    /\ UNCHANGED <<model_name, remote_down, pc, args, flavor, meanness, nerdiness,
                   prompt, requests, outcome, result, raised, catalog_vars,
                   environ, stores, lookup, config, chat>>

\* Lines 171-173: Ctrl-C while a generator method runs ends the method and
\* the loop.
InteractiveInterrupted ==
    /\ cli.state = "generating"
    /\ cli.mode = "interactive"
    /\ cli.pending # "none"
    /\ cli' = after_command(cli, "none", "KeyboardInterrupt")
    /\ FrameDropped("cli")
    /\ batch' = [batch EXCEPT !["cli"] = NoBatch]
    /\ random_frame' = [random_frame EXCEPT !["cli"] = NoRandom]
    /\ UNCHANGED <<model_name, remote_down, class_flavors, listed,
                   environ, stores, lookup, config, chat>>

\* The command lines: no option, --flavors alone and with a mode, a bot,
\* --random, --batch, and the options of a single joke.
CliArgvs ==
    {NoArgv,
     [NoArgv EXCEPT !.flavors = TRUE],
     [NoArgv EXCEPT !.flavors = TRUE, !.random = TRUE],
     [NoArgv EXCEPT !.bot = TRUE],
     [NoArgv EXCEPT !.random = TRUE],
     [NoArgv EXCEPT !.batch = 2],
     [NoArgv EXCEPT !.batch = 1, !.flavor = <<"b", "o", "g", "u", "s">>, !.meanness = 10],
     [NoArgv EXCEPT !.flavor = <<"t", "e", "c", "h">>],
     [NoArgv EXCEPT !.nerdiness = 1, !.target = <<"b", "O", "B">>]}

\* The environment and Doppler before main runs: the key unset, empty or set;
\* Doppler off, or on and empty, holding the key, or unreachable.
InitCli ==
    /\ InitGenerator
    /\ model_name = "gemini-2.5-flash-lite"
    /\ InitCatalog
    /\ remote_down = FALSE
    /\ lookup = NoLookup
    /\ InitApp
    /\ \E token \in {None, <<"dp.st.dev.token">>},
          api_key \in {None, << >>, <<"env-key">>},
          model \in {None, <<"gemini-2.5-pro">>} :
        environ = (DOPPLER_TOKEN :> token @@ GEMINI_API_KEY :> api_key
                   @@ GEMINI_MODEL :> model)
    /\ \E d \in {Store("ok", None, EmptyDict),
                 Store("ok", None, GEMINI_API_KEY :> <<"doppler-key">>),
                 Store("ok", None, GEMINI_API_KEY :> << >>),
                 Store("unreachable", None, GEMINI_API_KEY :> <<"doppler-key">>)} :
        stores = ("doppler" :> d @@ "aws" :> Store("ok", None, EmptyDict)
                  @@ "vault" :> Store("ok", None, EmptyDict))

NextCli ==
    \/ \E argv \in CliArgvs, constructs \in BOOLEAN : MainStarts(argv, constructs)
    \/ MainRandomJoke
    \/ MainRandomDelegates
    \/ MainRandomPrinted
    \/ MainBatch
    \/ MainBatchLoop
    \/ MainBatchPrinted
    \/ MainSingleJoke
    \/ MainJokePrinted
    \/ \E line \in {<< >>, <<"q", "u", "i", "t">>} : InteractiveReads(line)
    \/ InteractiveEnter
    \/ InteractivePrinted
    \/ CatalogRemote

SpecCli == InitCli /\ [][NextCli]_vars

---------------------------------------------------------------------------
\* The chat commands that take levels: Discord's /joke and !joke
\* (platforms/discord_bot.py) and Matrix's !joke (platforms/matrix_bot.py).

thegame == <<"t", "h", "e", "g", "a", "m", "e">>

\* `meanness or self.config.default_meanness` for an Optional[int].
given_or_default(has, level, setting) ==
    IF has /\ level # 0 THEN level ELSE property_value(setting)

\* discord_bot.py, joke_slash (lines 112-175), without a mentioned user: the
\* command record after the validation and the argument selection.
joke_slash(fl, hm, m, hn, n, target) ==
    LET cmd == [NoCommand EXCEPT !.command = "joke_slash",
                                 !.has_meanness = hm, !.meanness = IF hm THEN m ELSE 0,
                                 !.has_nerdiness = hn, !.nerdiness = IF hn THEN n ELSE 0]
    IN  IF hm /\ ~(1 <= m /\ m <= 11)
        THEN [cmd EXCEPT !.state = "rejected", !.reply = "meanness_error"]
        ELSE IF hn /\ ~(1 <= n /\ n <= 10)
        THEN [cmd EXCEPT !.state = "rejected", !.reply = "nerdiness_error"]
        ELSE IF fl = thegame
        THEN [cmd EXCEPT !.state = "accepted",
                         !.call = [flavor |-> thegame, meanness |-> 11,
                                   nerdiness |-> IF hm /\ m # 0 THEN m ELSE 5,
                                   target_name |-> IF truthy(target) THEN target
                                                   ELSE <<"y", "o", "u">>]]
        ELSE [cmd EXCEPT !.state = "accepted",
                         !.call = [flavor |-> flavor_or_default(fl),
                                   meanness |-> given_or_default(hm, m, "default_meanness"),
                                   nerdiness |-> given_or_default(hn, n, "default_nerdiness"),
                                   target_name |-> target]]

\* discord_bot.py, joke_text (lines 364-392): `meanness: int = 5,
\* nerdiness: int = 5`, and no check of either.
joke_text(fl, hm, m, hn, n) ==
    LET cmd == [NoCommand EXCEPT !.command = "joke_text",
                                 !.has_meanness = hm, !.meanness = IF hm THEN m ELSE 5,
                                 !.has_nerdiness = hn, !.nerdiness = IF hn THEN n ELSE 5]
    IN  IF truthy(fl) /\ lower(fl) = thegame
        THEN [cmd EXCEPT !.state = "accepted",
                         !.call = [flavor |-> thegame, meanness |-> 10, nerdiness |-> 5,
                                   target_name |-> None]]
        ELSE [cmd EXCEPT !.state = "accepted",
                         !.call = [flavor |-> fl, meanness |-> cmd.meanness,
                                   nerdiness |-> cmd.nerdiness, target_name |-> None]]

\* matrix_bot.py, _cmd_joke (lines 141-170) under _handle_message's
\* `except Exception` (lines 136-139); words are the words after the command.
cmd_joke(words) ==
    LET hm == Len(words) > 1
        hn == Len(words) > 2
        cmd == [NoCommand EXCEPT !.command = "cmd_joke"]
    IN  IF hm /\ int_raises(words[2])
        THEN [cmd EXCEPT !.state = "failed", !.reply = "error"]
        ELSE IF hn /\ int_raises(words[3])
        THEN [cmd EXCEPT !.state = "failed", !.reply = "error"]
        ELSE LET mn == IF hm THEN int_of(words[2]) ELSE property_value("default_meanness")
                 nd == IF hn THEN int_of(words[3]) ELSE property_value("default_nerdiness")
                 parsed == [cmd EXCEPT !.has_meanness = hm, !.meanness = mn,
                                       !.has_nerdiness = hn, !.nerdiness = nd]
             IN  IF mn < 1 \/ mn > 11
                 THEN [parsed EXCEPT !.state = "rejected", !.reply = "meanness_error"]
                 ELSE IF nd < 1 \/ nd > 10
                 THEN [parsed EXCEPT !.state = "rejected", !.reply = "nerdiness_error"]
                 ELSE [parsed EXCEPT !.state = "accepted",
                                     !.call = [flavor |-> IF Len(words) > 0 THEN words[1]
                                                          ELSE None,
                                               meanness |-> mn, nerdiness |-> nd,
                                               target_name |-> None]]

\* A command arrives on platform c and its handler runs up to the generator.
CommandArrives(c, cmd) ==
    /\ chat[c].state = "idle"
    /\ pc[c] = "idle"
    /\ chat' = [chat EXCEPT ![c] = cmd]
    /\ UNCHANGED <<generator_vars, catalog_vars, environ, stores, lookup, config, cli>>

\* The handler calls self.generator.generate_joke with the arguments chosen.
HandlerInvokes(c) ==
    /\ chat[c].state = "accepted"
    /\ CallGenerateJoke(c, chat[c].call.flavor, chat[c].call.meanness,
                        chat[c].call.nerdiness, chat[c].call.target_name)

\* The handler sends the joke, or the text of the exception it caught.
HandlerReplies(c) ==
    /\ chat[c].state = "accepted"
    /\ pc[c] = "returned"
    /\ chat' = [chat EXCEPT ![c].state = IF raised[c] = NoException THEN "replied"
                                         ELSE "failed",
                            ![c].reply = IF raised[c] = NoException THEN "joke"
                                         ELSE "error"]
    /\ FrameDropped(c)
    /\ UNCHANGED <<model_name, remote_down, batch, catalog_vars,
                   environ, stores, lookup, config, cli>>

\* The handler has returned.
HandlerReturns(c) ==
    /\ chat[c].state \in {"rejected", "failed", "replied"}
    /\ chat' = [chat EXCEPT ![c] = NoCommand]
    /\ UNCHANGED <<generator_vars, catalog_vars, environ, stores, lookup, config, cli>>

\* The levels a user types: LevelPairs, or one level or none at all.
GivenLevels ==
    {[hm |-> TRUE, m |-> p[1], hn |-> TRUE, n |-> p[2]] : p \in LevelPairs}
    \cup {[hm |-> TRUE, m |-> m, hn |-> FALSE, n |-> 0] : m \in LevelInputs}
    \cup {[hm |-> FALSE, m |-> 0, hn |-> TRUE, n |-> n] : n \in LevelInputs}
    \cup {[hm |-> FALSE, m |-> 0, hn |-> FALSE, n |-> 0]}

\* The words after Matrix's !joke: none, a theme, a theme and levels; a level
\* word is an int literal, signed or not, or no number.
LevelWords ==
    {str_int(m) : m \in SparseLevels \cup {1, 10, 11}}
    \cup {<<"+", "7">>, <<"a", "b", "c">>}

MatrixWords ==
    {<< >>, << <<"t", "e", "c", "h">> >>}
    \cup {<< <<"t", "e", "c", "h">>, m >> : m \in LevelWords}
    \cup {<< <<"t", "e", "c", "h">>, m, n >> : m \in LevelWords, n \in LevelWords}

DiscordSlashArrives ==
    \E fl \in {None, <<"t", "e", "c", "h">>, thegame}, g \in GivenLevels,
       target \in {None, <<"b", "O", "B">>} :
        CommandArrives("discord", joke_slash(fl, g.hm, g.m, g.hn, g.n, target))

DiscordTextArrives ==
    \E fl \in {None, <<"t", "e", "c", "h">>, <<"T", "h", "e", "G", "a", "m", "e">>},
       g \in GivenLevels :
        /\ g.hn => g.hm
        /\ g.hm => fl # None
        /\ CommandArrives("discord", joke_text(fl, g.hm, g.m, g.hn, g.n))

MatrixJokeArrives ==
    \E words \in MatrixWords : CommandArrives("matrix", cmd_joke(words))

\* One command at a time: the next arrives when the last has been answered.
NoCommandHandled == \A c \in ChatCallers : chat[c].state = "idle"

InitChat ==
    /\ InitGenerator
    /\ model_name = "gemini-2.5-flash-lite"
    /\ InitSurroundings
    /\ remote_down = FALSE

NextChat ==
    \/ NoCommandHandled /\ DiscordSlashArrives
    \/ NoCommandHandled /\ DiscordTextArrives
    \/ NoCommandHandled /\ MatrixJokeArrives
    \/ \E c \in ChatCallers : HandlerInvokes(c)
    \/ \E c \in ChatCallers : ChatRemote(c)
    \/ \E c \in ChatCallers : HandlerReplies(c)
    \/ \E c \in ChatCallers : HandlerReturns(c)

SpecChat == InitChat /\ [][NextChat]_vars

---------------------------------------------------------------------------
\* The Matrix bot's message callback (platforms/matrix_bot.py).

\* self.user_id, and somebody else in the room.
own_user_id == <<"@yomama:example.org">>
other_user_id == <<"@alice:example.org">>

\* Line 72: self.prefix, MATRIX_PREFIX left at its default.
prefix == <<"!">>

MaxLogged == 2

\* The positions where a word of s starts, and where the word that starts at
\* position i ends.
word_starts(s) ==
    {i \in 1..Len(s) : s[i] \notin Whitespace /\ (i = 1 \/ s[i - 1] \in Whitespace)}

word_end(s, i) ==
    CHOOSE j \in i..Len(s) :
        /\ \A k \in i..j : s[k] \notin Whitespace
        /\ j = Len(s) \/ s[j + 1] \in Whitespace

\* str.split(): the words between runs of whitespace, in their order.
split(s) ==
    [n \in 1..Cardinality(word_starts(s)) |->
        LET i == CHOOSE i \in word_starts(s) :
                     Cardinality({j \in word_starts(s) : j < i}) = n - 1
        IN  SubSeq(s, i, word_end(s, i))]

\* message[len(self.prefix):].split() of the stripped body (lines 106, 113).
parts_of(body) == split(SubSeq(strip(body), Len(prefix) + 1, Len(strip(body))))

\* A handler that answers every prefixed message, its own included.
ignores_others_only(event) ==
    \/ ~startswith(prefix, strip(event.body))
    \/ parts_of(event.body) = << >>

\* Lines 103-115: the three early returns of _handle_message.
ignores(event) ==
    \/ event.sender = own_user_id
    \/ ~startswith(prefix, strip(event.body))
    \/ parts_of(event.body) = << >>

\* A _send_message that lets room_send's exception through.
send_message_unguarded(fails) ==
    [delivered |-> ~fails, raised |-> IF fails THEN "ConnectionError" ELSE NoException]

\* _send_message (lines 243-267): room_send inside try / except Exception,
\* which logs and returns.
send_message(fails) ==
    [delivered |-> ~fails,
     raised |-> IF fails /\ ~except_catches("ConnectionError") THEN "ConnectionError"
                ELSE NoException]

\* Lines 136-139: _handle_message's except clause logs the exception and
\* sends its text; what its own _send_message raises leaves the callback.
handler_caught(record, cls) ==
    IF ~except_catches(cls)
    THEN [record EXCEPT !.state = "crashed", !.escaped = cls]
    ELSE LET out == send_message(record.fails)
         IN  [record EXCEPT !.state = IF out.raised = NoException THEN "failed"
                                      ELSE "crashed",
                            !.reply = "error",
                            !.logged = @ + 1,
                            !.sent = IF out.delivered THEN Append(@, "error") ELSE @,
                            !.escaped = out.raised]

\* `await self._send_message(room, ...)` inside the try of lines 123-135.
said(record, kind) ==
    LET out == send_message(record.fails)
    IN  IF out.raised # NoException THEN handler_caught(record, out.raised)
        ELSE [record EXCEPT !.sent = IF out.delivered THEN Append(@, kind) ELSE @]

\* Lines 128-129 and _cmd_batch up to the generator call (lines 179-195).
cmd_batch(words) ==
    LET cmd == [NoCommand EXCEPT !.command = "cmd_batch"]
        count == IF Len(words) > 0 THEN int_of(words[1]) ELSE 3
    IN  IF Len(words) > 0 /\ int_raises(words[1])
        THEN [cmd EXCEPT !.state = "rejected", !.reply = "count_error"]
        ELSE IF count < 1 \/ count > 10
        THEN [cmd EXCEPT !.state = "rejected", !.reply = "count_range"]
        ELSE [cmd EXCEPT !.state = "accepted", !.count = count,
                         !.call = [flavor |-> IF Len(words) > 1 THEN words[2] ELSE None,
                                   meanness |-> property_value("default_meanness"),
                                   nerdiness |-> property_value("default_nerdiness"),
                                   target_name |-> None]]

\* Lines 117-135: the command word is lower-cased and routed to its method.
routed(parts) ==
    LET command == lower(parts[1])
    IN  IF command = <<"j", "o", "k", "e">> THEN cmd_joke(Tail(parts))
        ELSE IF command = <<"r", "a", "n", "d", "o", "m">>
        THEN [NoCommand EXCEPT !.command = "cmd_random", !.state = "accepted"]
        ELSE IF command = <<"b", "a", "t", "c", "h">> THEN cmd_batch(Tail(parts))
        ELSE IF command = <<"f", "l", "a", "v", "o", "r", "s">>
        THEN [NoCommand EXCEPT !.command = "cmd_flavors", !.state = "replied",
                               !.reply = "flavors"]
        ELSE IF command = <<"h", "e", "l", "p">>
        THEN [NoCommand EXCEPT !.command = "cmd_help", !.state = "replied",
                               !.reply = "help"]
        ELSE [NoCommand EXCEPT !.command = "unknown", !.state = "replied",
                               !.reply = "unknown_command"]

\* What the method says before it returns or calls the generator: its answer,
\* or that it is generating.
first_message(record) ==
    IF record.state = "accepted" THEN "generating" ELSE record.reply

\* Lines 136-139 for int()'s ValueError in _cmd_joke, the method's first
\* message otherwise.
answered(record) ==
    IF record.state = "ignored" THEN record
    ELSE IF record.state = "failed" THEN handler_caught(record, "ValueError")
    ELSE said(record, first_message(record))

\* The record of the message being handled.
received(record, event, fails, logged) ==
    [record EXCEPT !.event = event, !.fails = fails, !.logged = logged]

\* _handle_message (lines 101-139) up to the generator call; logged is the
\* number of errors logged before.
handle_message(event, fails, logged) ==
    answered(received(IF ignores(event) THEN [NoCommand EXCEPT !.state = "ignored"]
                      ELSE routed(parts_of(event.body)),
                      event, fails, logged))

\* The method's last message: the joke or jokes, or lines 136-139 for what
\* the generator raised.
last_message(record, kind, cls) ==
    IF cls = NoException
    THEN said([record EXCEPT !.state = "replied", !.reply = kind], kind)
    ELSE handler_caught(record, cls)

\* The callback is not running.
MatrixIdle ==
    /\ chat["matrix"].state = "idle"
    /\ pc["matrix"] = "idle"
    /\ batch["matrix"].bpc = "none"
    /\ ~random_frame["matrix"].active

\* A room message arrives and _handle_message runs up to the generator call;
\* _cmd_flavors gets its list from list_flavors().
MatrixMessageArrives(event, fails) ==
    /\ MatrixIdle
    /\ chat["matrix"].logged < MaxLogged
    /\ chat' = [chat EXCEPT !["matrix"] = handle_message(event, fails, chat["matrix"].logged)]
    /\ listed' = IF chat'["matrix"].command = "cmd_flavors"
                 THEN [listed EXCEPT
                          !["matrix"] = [list_flavors EXCEPT
                                            !.modified = listed["matrix"].modified]]
                 ELSE listed
    /\ UNCHANGED <<generator_vars, random_frame, class_flavors,
                   environ, stores, lookup, config, cli>>

\* _cmd_joke, lines 159-163.
MatrixJoke ==
    /\ chat["matrix"].command = "cmd_joke"
    /\ HandlerInvokes("matrix")

\* _cmd_joke, lines 165-170: the joke is sent; lines 136-139 otherwise.
MatrixJokeSent ==
    /\ chat["matrix"].command = "cmd_joke"
    /\ chat["matrix"].state = "accepted"
    /\ pc["matrix"] = "returned"
    /\ chat' = [chat EXCEPT !["matrix"] = last_message(@, "joke", raised["matrix"])]
    /\ FrameDropped("matrix")
    /\ UNCHANGED <<model_name, remote_down, batch, catalog_vars,
                   environ, stores, lookup, config, cli>>

\* _cmd_random, line 176.
MatrixRandom ==
    /\ chat["matrix"].command = "cmd_random"
    /\ chat["matrix"].state = "accepted"
    /\ \/ CallRandomJoke("matrix")
       \/ RandomJokeDelegates("matrix")

\* _cmd_random, line 177.
MatrixRandomSent ==
    /\ chat["matrix"].command = "cmd_random"
    /\ chat["matrix"].state = "accepted"
    /\ random_frame["matrix"].active
    /\ pc["matrix"] = "returned"
    /\ chat' = [chat EXCEPT !["matrix"] = last_message(@, "joke", raised["matrix"])]
    /\ FrameDropped("matrix")
    /\ random_frame' = [random_frame EXCEPT !["matrix"] = NoRandom]
    /\ UNCHANGED <<model_name, remote_down, batch, class_flavors, listed,
                   environ, stores, lookup, config, cli>>

\* _cmd_batch, lines 197-202.
MatrixBatch ==
    /\ chat["matrix"].command = "cmd_batch"
    /\ chat["matrix"].state = "accepted"
    /\ \/ CallGenerateBatch("matrix", chat["matrix"].count, chat["matrix"].call.flavor,
                            chat["matrix"].call.meanness, chat["matrix"].call.nerdiness,
                            None)
       \/ BatchInvokes("matrix")
       \/ BatchCollects("matrix")
       \/ BatchReturns("matrix")

\* _cmd_batch, lines 204-210.
MatrixBatchSent ==
    /\ chat["matrix"].command = "cmd_batch"
    /\ chat["matrix"].state = "accepted"
    /\ batch["matrix"].bpc \in {"done", "raised"}
    /\ chat' = [chat EXCEPT !["matrix"] =
                   last_message(@, "jokes",
                                IF batch["matrix"].bpc = "done" THEN NoException
                                ELSE batch["matrix"].calls[Len(batch["matrix"].calls)].raised)]
    /\ batch' = [batch EXCEPT !["matrix"] = NoBatch]
    /\ UNCHANGED <<model_name, remote_down, pc, args, flavor, meanness, nerdiness,
                   prompt, requests, outcome, result, raised, catalog_vars,
                   environ, stores, lookup, config, cli>>

\* The callback has returned and its locals are gone; the log keeps its lines.
MatrixReturns ==
    /\ chat["matrix"].state \in {"ignored", "rejected", "failed", "replied"}
    /\ chat' = [chat EXCEPT !["matrix"] = [NoCommand EXCEPT !.logged = chat["matrix"].logged]]
    /\ listed' = [listed EXCEPT !["matrix"] = NoList]
    /\ UNCHANGED <<generator_vars, random_frame, class_flavors,
                   environ, stores, lookup, config, cli>>

\* The bodies of room messages: no command, the prefix alone, the prefix
\* elsewhere, and the commands with and without arguments, well-formed or not.
MatrixBodies ==
    {<< >>, <<" ">>, <<"h", "i">>, <<"!">>, <<" ", "!", " ", "\n">>,
     <<"j", "o", "k", "e", " ", "!">>,
     <<"!", "j", "o", "k", "e">>,
     <<" ", "!", "J", "o", "k", "e", " ", " ", "T", "e", "c", "h", " ">>,
     <<"!", " ", "j", "o", "k", "e", " ", "l", "i", "n", "u", "x", " ", "1", "1", " ", "3">>,
     <<"!", "j", "o", "k", "e", " ", "t", "e", "c", "h", " ", "l", "o", "w">>,
     <<"!", "j", "o", "k", "e", " ", "t", "e", "c", "h", " ", "5", " ", "x">>,
     <<"!", "j", "o", "k", "e", " ", "t", "e", "c", "h", " ", "1", "2">>,
     <<"!", "j", "o", "k", "e", " ", "t", "e", "c", "h", " ", "5", " ", "0">>,
     <<"!", "r", "a", "n", "d", "o", "m">>,
     <<"!", "b", "a", "t", "c", "h", " ", "2", " ", "t", "e", "c", "h">>,
     <<"!", "b", "a", "t", "c", "h", " ", "x">>,
     <<"!", "b", "a", "t", "c", "h", " ", "1", "1">>,
     <<"!", "f", "l", "a", "v", "o", "r", "s">>,
     <<"!", "H", "E", "L", "P">>,
     <<"!", "d", "a", "n", "c", "e">>}

MatrixEvents == [sender : {own_user_id, other_user_id}, body : MatrixBodies]

InitMatrix ==
    /\ InitGenerator
    /\ model_name = "gemini-2.5-flash-lite"
    /\ InitSurroundings
    /\ remote_down = FALSE

NextMatrix ==
    \/ \E event \in MatrixEvents, fails \in BOOLEAN : MatrixMessageArrives(event, fails)
    \/ MatrixJoke
    \/ MatrixJokeSent
    \/ MatrixRandom
    \/ MatrixRandomSent
    \/ MatrixBatch
    \/ MatrixBatchSent
    \/ MatrixReturns
    \/ ChatRemote("matrix")

SpecMatrix == InitMatrix /\ [][NextMatrix]_vars

---------------------------------------------------------------------------
\* The default levels read from every kind of value a source can hold.

\* What DEFAULT_MEANNESS and DEFAULT_NERDINESS can be set to: nothing, the
\* empty string, no number, and int literals inside and outside 1..10.
DefaultLevelValues ==
    {None, << >>, <<"h", "i", "g", "h">>, <<"7">>, <<" ", "3", " ">>, <<"0">>,
     <<"-", "3">>, <<"1", "1">>, <<"9", "9">>}

InitDefaults ==
    /\ InitGenerator
    /\ model_name = "gemini-2.5-flash-lite"
    /\ InitCatalog
    /\ remote_down = FALSE
    /\ lookup = NoLookup
    /\ InitApp
    /\ stores = [src \in {"doppler", "aws", "vault"} |-> Store("ok", None, EmptyDict)]
    /\ \E m \in DefaultLevelValues, n \in DefaultLevelValues :
        environ = (DEFAULT_MEANNESS :> m @@ DEFAULT_NERDINESS :> n)

NextDefaults ==
    \/ GetConfig
    \/ ResetConfig
    \/ \E setting \in IntSettings : ReadSetting(setting)

SpecDefaults == InitDefaults /\ [][NextDefaults]_vars

---------------------------------------------------------------------------
\* An interactive session: main() without options, then lines at the prompt.

\* The lines typed: every command, accepted and rejected, in several
\* spellings.
InteractiveLines ==
    {<< >>, <<" ">>,
     <<"q", "u", "i", "t">>, <<"Q", "u", "i", "t">>,
     <<"f", "l", "a", "v", "o", "r", "s">>,
     <<"s", "e", "t", "t", "i", "n", "g", "s">>,
     <<"r">>,
     <<"f", " ", "l", "i", "n", "u", "x">>, <<"f", " ", " ", "T", "e", "c", "h", " ">>,
     <<"f", " ", "b", "o", "g", "u", "s">>, <<"f">>, <<"F", " ", "l", "i", "n", "u", "x">>,
     <<"m", " ", "3">>, <<"m", " ", "0">>, <<"m", " ", "1", "1">>, <<"m", " ", "-", "2">>,
     <<"m", " ", "l", "o", "w">>,
     <<"n", " ", "1", "0">>, <<"n", " ", "1", "2">>, <<"n", " ", "x">>,
     <<"t", " ", "b", "O", "B">>, <<"t", " ", "N", "o", "n", "e">>,
     <<"t", " ", "r", "e", "s", "e", "t">>,
     <<"b", " ", "2">>, <<"b", " ", "0">>, <<"b", " ", "2", "1">>, <<"b", " ", "x">>,
     <<"h", "e", "l", "p">>}

\* The key is set; the defaults are unset, valid, or out of the catalog and
\* out of range.
InitInteractive ==
    /\ InitGenerator
    /\ model_name = "gemini-2.5-flash-lite"
    /\ InitCatalog
    /\ remote_down = FALSE
    /\ lookup = NoLookup
    /\ InitApp
    /\ stores = [src \in {"doppler", "aws", "vault"} |-> Store("ok", None, EmptyDict)]
    /\ \E f \in {None, <<"l", "i", "n", "u", "x">>, <<"B", "o", "g", "u", "s">>},
          m \in {None, <<"9", "9">>} :
        environ = (GEMINI_API_KEY :> <<"env-key">> @@ DEFAULT_FLAVOR :> f
                   @@ DEFAULT_MEANNESS :> m)

NextInteractive ==
    \/ MainStarts(NoArgv, TRUE)
    \/ \E line \in InteractiveLines : InteractiveReads(line)
    \/ \E cls \in {"EOFError", "KeyboardInterrupt"} : InteractiveReadRaises(cls)
    \/ InteractiveEnter
    \/ InteractivePrinted
    \/ InteractiveRandom
    \/ InteractiveRandomPrinted
    \/ InteractiveBatch
    \/ InteractiveBatchPrinted
    \/ InteractiveInterrupted
    \/ CatalogRemote

SpecInteractive == InitInteractive /\ [][NextInteractive]_vars

---------------------------------------------------------------------------
\* Properties of generate_joke.

Called(c) == pc[c] \in {"awaiting", "returned"}
Returned(c) == pc[c] = "returned"
RemoteFailed(c) == Returned(c) /\ outcome[c].kind = "error"
RemoteSucceeded(c) == Returned(c) /\ outcome[c].kind = "response"

ThrottleMarkers == {<<"4", "2", "9">>, <<"q", "u", "o", "t", "a">>, <<"r", "a", "t", "e", " ", "l", "i", "m", "i", "t">>}

\* The failure description holds a throttling marker in some letter case.
ThrottleMarked(msg) == \E mk \in ThrottleMarkers : contains(mk, lower(msg))

\* C1: whatever exception the remote call raises, generate_joke returns a
\* joke string and propagates nothing.
C1_RemoteFailureAbsorbed ==
    \A c \in Callers :
        RemoteFailed(c) => raised[c] = NoException /\ result[c] # None

C1_Witness ==
    \E c \in Callers :
        /\ RemoteFailed(c)
        /\ outcome[c].cls = "ConnectionError"
        /\ raised[c] = NoException
        /\ result[c] # None

\* C2: a remote failure whose description holds "429", "quota" or
\* "rate limit" in any letter case yields one of the six throttling jokes,
\* whatever the theme.
C2_ThrottlingJoke ==
    \A c \in Callers :
        RemoteFailed(c) /\ ThrottleMarked(outcome[c].msg)
            => /\ raised[c] = NoException
               /\ result[c] \in Range(rate_limit_jokes)
               /\ Len(rate_limit_jokes) = 6

C2_Witness ==
    \E c \in Callers :
        /\ RemoteFailed(c)
        /\ outcome[c].msg = <<"Q", "u", "O", "T", "A", " ", "e", "x", "h", "a", "u", "s", "t", "e", "d">>
        /\ flavor[c] = <<"t", "e", "c", "h">>
        /\ result[c] \in Range(rate_limit_jokes)

\* The themes with a fallback of their own.
ThemesWithFallback ==
    {<<"c", "y", "b", "e", "r", "s", "e", "c", "u", "r", "i", "t", "y">>, <<"t", "e", "c", "h">>, <<"l", "i", "n", "u", "x">>, <<"g", "e", "n", "e", "r", "a", "l">>, <<"g", "a", "m", "i", "n", "g">>,
     <<"p", "r", "o", "g", "r", "a", "m", "m", "i", "n", "g">>, <<"r", "a", "d", "i", "o">>, <<"t", "h", "e", "g", "a", "m", "e">>}

\* C3: a remote failure without a throttling marker yields the resolved
\* theme's own fallback when it has one, else the generic fallback.
C3_ThemeFallback ==
    \A c \in Callers :
        RemoteFailed(c) /\ ~ThrottleMarked(outcome[c].msg)
            => /\ raised[c] = NoException
               /\ flavor[c] \in ThemesWithFallback => result[c] = fallbacks[flavor[c]]
               /\ flavor[c] \notin ThemesWithFallback => result[c] = generic_fallback
               /\ ThemesWithFallback = DOMAIN fallbacks
               /\ generic_fallback \notin Range(fallbacks)

C3_Witness ==
    \E c \in Callers :
        /\ RemoteFailed(c)
        /\ outcome[c].msg = <<"t", "i", "m", "e", "d", " ", "o", "u", "t">>
        /\ flavor[c] = <<"r", "a", "d", "i", "o">>
        /\ result[c] = fallbacks[<<"r", "a", "d", "i", "o">>]

\* C4 (as claimed): generate_joke always returns a non-empty string.
C4_ResultNonEmpty ==
    \A c \in Callers :
        Returned(c) => raised[c] = NoException /\ result[c] # None /\ Len(result[c]) > 0

\* max(1, min(10, value)) spelled out.
Clamped(value) == IF value < 1 THEN 1 ELSE IF value > 10 THEN 10 ELSE value

\* C5: the levels used for the guidance lookup are max(1, min(10, value)),
\* lie in 1..10, and the lookup does not fail.
C5_LevelsClamped ==
    \A c \in Callers :
        Called(c)
            => /\ meanness[c] = Clamped(args[c].meanness)
               /\ nerdiness[c] = Clamped(args[c].nerdiness)
               /\ meanness[c] \in 1..10 /\ nerdiness[c] \in 1..10
               /\ meanness[c] \in DOMAIN meanness_guide
               /\ nerdiness[c] \in DOMAIN nerdiness_guide
               /\ raised[c] # "KeyError"

C5_Witness ==
    \E c \in Callers :
        /\ pc[c] = "awaiting"
        /\ args[c].meanness <= 0 /\ meanness[c] = 1
        /\ args[c].nerdiness >= 11 /\ nerdiness[c] = 10

\* C6 (as claimed): for a theme input outside the catalog, the empty string
\* included, the theme used is a member of the catalog and composition does
\* not fail.
C6_UnknownThemeReplaced ==
    \A c \in Callers :
        Called(c) /\ args[c].flavor # None /\ args[c].flavor \notin Range(FLAVORS)
            => flavor[c] \in Range(FLAVORS) /\ raised[c] # "KeyError"

\* C8: an invocation issues exactly one request, with the configured model
\* and the composed prompt, whether the call succeeds or fails.
C8_OneRequest ==
    \A c \in Callers :
        Called(c)
            => /\ Len(requests[c]) = 1
               /\ requests[c][1].model = model_name
               /\ requests[c][1].contents = prompt[c]
               /\ prompt[c] = build_prompt(flavor[c], meanness[c], nerdiness[c],
                                           args[c].target_name)

C8_Witness ==
    \E c \in Callers :
        /\ RemoteFailed(c)
        /\ model_name = "gemini-2.5-pro"
        /\ Len(requests[c]) = 1
        /\ requests[c][1].model = "gemini-2.5-pro"

RECURSIVE LeftTrimmed(_)
LeftTrimmed(s) ==
    IF s # << >> /\ Head(s) \in Whitespace THEN LeftTrimmed(Tail(s)) ELSE s

RECURSIVE RightTrimmed(_)
RightTrimmed(s) ==
    IF s # << >> /\ s[Len(s)] \in Whitespace
    THEN RightTrimmed(SubSeq(s, 1, Len(s) - 1)) ELSE s

Trimmed(s) == RightTrimmed(LeftTrimmed(s))

\* C9 (as claimed): when the remote call succeeds, the result is the response
\* text with leading and trailing whitespace removed.
C9_SuccessReturnsTrimmedText ==
    \A c \in Callers :
        RemoteSucceeded(c)
            => /\ raised[c] = NoException
               /\ outcome[c].text # None
               /\ result[c] = Trimmed(outcome[c].text)

\* C9 (amended): when the remote call succeeds with a response that carries
\* text, the result is that text with leading and trailing whitespace removed;
\* a response without text is answered with the theme's fallback.
C9_TextReturnedTrimmed ==
    \A c \in Callers :
        RemoteSucceeded(c)
            => /\ raised[c] = NoException
               /\ outcome[c].text # None => result[c] = Trimmed(outcome[c].text)
               /\ outcome[c].text = None => result[c] = get_fallback_joke(flavor[c])

C9_Witness ==
    \E c \in Callers :
        /\ RemoteSucceeded(c)
        /\ outcome[c].text = <<" ", "\n">> \o <<"Y", "o", " ", "m", "a", "m", "a">> \o <<"\t", " ">>
        /\ result[c] = <<"Y", "o", " ", "m", "a", "m", "a">>

\* The theme input is a catalog theme in some letter case.
Recognized(f) == f # None /\ \E i \in DOMAIN FLAVORS : FLAVORS[i] = lower(f)

\* C7 (as claimed): two compositions with identical inputs produce identical
\* request text.
C7_ComposeDeterministic ==
    \A c1, c2 \in Callers :
        Called(c1) /\ Called(c2) /\ args[c1] = args[c2]
            => prompt[c1] = prompt[c2]

\* C7 (amended): two compositions with identical inputs produce identical
\* request text when the theme is a catalog theme in some letter case, and
\* otherwise when they resolved to the same theme.
C7_ComposeDeterministicGivenTheme ==
    \A c1, c2 \in Callers :
        /\ Called(c1) /\ Called(c2) /\ args[c1] = args[c2]
        /\ Recognized(args[c1].flavor) \/ flavor[c1] = flavor[c2]
        => prompt[c1] = prompt[c2]

C7_Witness ==
    /\ Called("discord") /\ Called("matrix")
    /\ args["discord"] = args["matrix"]
    /\ args["discord"].flavor = <<"T", "e", "c", "h">>
    /\ prompt["discord"] = prompt["matrix"]
    /\ prompt["discord"] # None

\* The strings generate_joke returns in place of a generated joke.
FallbackJokes == Range(rate_limit_jokes) \cup Range(fallbacks) \cup {generic_fallback}

\* C10: against a remote that fails every call, generate_batch(count) with
\* count >= 1 returns exactly count fallback jokes.
C10_BatchOfFallbacks ==
    \A c \in Callers :
        batch[c].bpc = "done" /\ remote_down /\ batch[c].count >= 1
            => /\ Len(batch[c].jokes) = batch[c].count
               /\ batch[c].jokes # << >>
               /\ \A k \in DOMAIN batch[c].jokes : batch[c].jokes[k] \in FallbackJokes

C10_Witness ==
    \E c \in Callers :
        /\ batch[c].bpc = "done" /\ remote_down
        /\ batch[c].count = MaxBatchCount
        /\ Len(batch[c].jokes) = MaxBatchCount
        /\ \E k \in DOMAIN batch[c].jokes : batch[c].jokes[k] \in Range(rate_limit_jokes)
        /\ \E k \in DOMAIN batch[c].jokes : batch[c].jokes[k] = fallbacks[<<"t", "e", "c", "h">>]

---------------------------------------------------------------------------
\* Properties of generate_batch with invocations that raise.

Succeeded(call) == call.raised = NoException

\* The results of the invocations that did not raise, in invocation order.
SucceededResults(calls) ==
    LET kept == SelectSeq(calls, Succeeded)
    IN  [k \in 1..Len(kept) |-> kept[k].result]

\* C11: generate_batch invokes generate_joke exactly count times, one after
\* the other; an invocation that raises is skipped and the later ones still
\* run, so the batch never raises, its list holds the results of the
\* invocations that returned, in invocation order, and has at most count items.
C11_BatchSkipsRaisingInvocations ==
    LET b == batch["cli"]
    IN  b.bpc # "none" =>
            /\ b.bpc # "raised"
            /\ Len(b.calls) = b.i
            /\ b.i <= b.count
            /\ (Called("cli") => b.bpc = "loop" /\ b.i < b.count)
            /\ (b.bpc = "done" => Len(b.calls) = b.count /\ ~Called("cli"))
            /\ b.jokes = SucceededResults(b.calls)
            /\ Len(b.jokes) <= b.count

C11_Witness ==
    LET b == batch["cli"]
    IN  /\ b.bpc = "done"
        /\ b.count = MaxBatchCount
        /\ Len(b.calls) = MaxBatchCount
        /\ \A k \in DOMAIN b.calls : b.calls[k].raised = "AttributeError"
        /\ b.jokes = << >>

---------------------------------------------------------------------------
\* Properties of random_joke and list_flavors.

\* C12: every random_joke invocation delegates to generate_joke with meanness
\* and nerdiness in 3..7, a theme of the list_flavors() catalog and no target
\* name; the arguments are the values drawn.
C12_RandomJokeDelegation ==
    \A c \in Callers :
        random_frame[c].active /\ Called(c) =>
            /\ args[c].meanness \in 3..7
            /\ args[c].nerdiness \in 3..7
            /\ args[c].flavor \in Range(list_flavors.items)
            /\ args[c].target_name = None
            /\ args[c].flavor = random_frame[c].flavor
            /\ args[c].meanness = random_frame[c].meanness
            /\ args[c].nerdiness = random_frame[c].nerdiness
            /\ flavor[c] = args[c].flavor
            /\ meanness[c] = args[c].meanness
            /\ nerdiness[c] = args[c].nerdiness

C12_Witness ==
    /\ random_frame["cli"].active
    /\ Returned("cli")
    /\ args["cli"].meanness = 3
    /\ args["cli"].nerdiness = 7
    /\ args["cli"].flavor = FLAVORS[Len(FLAVORS)]
    /\ listed["matrix"].modified

NoDuplicates(items) ==
    \A i, j \in DOMAIN items : i # j => items[i] # items[j]

\* C13: every call of list_flavors() returns the declared catalog, in its
\* declared order, non-empty and without duplicates, whatever ran before, a
\* caller's changes to a list returned earlier included.
C13_ListFlavorsStable ==
    /\ class_flavors = FLAVORS
    /\ \A c \in Callers :
        listed[c].held /\ listed[c].fresh =>
            /\ listed[c].items = FLAVORS
            /\ listed[c].items # << >>
            /\ NoDuplicates(listed[c].items)

C13_Witness ==
    /\ listed["matrix"].held
    /\ listed["matrix"].fresh
    /\ listed["matrix"].modified
    /\ listed["matrix"].items = FLAVORS
    /\ Returned("cli")

---------------------------------------------------------------------------
\* Properties of get_secret.

\* The name the looked-up key has in the environment and in Doppler.
NameInEnv(l) ==
    IF l.platform = None THEN upper(l.key)
    ELSE upper(l.platform) \o <<"_">> \o upper(l.key)

\* The non-empty value a dict holds under a name, None when there is none.
HeldValue(d, name) ==
    IF name \in DOMAIN d /\ d[name] # << >> THEN d[name] ELSE None

FirstHeld(d, name, other) ==
    IF HeldValue(d, name) # None THEN HeldValue(d, name) ELSE HeldValue(d, other)

IsSet(name) == name \in DOMAIN environ /\ environ[name] # None /\ environ[name] # << >>

Answers(src) == stores[src].status = "ok"

ManagerIs(word) == IsSet(SECRETS_MANAGER) /\ lower(environ[SECRETS_MANAGER]) = word

\* What each source yields for lookup l: Doppler when its token is set, AWS and
\* Vault when SECRETS_MANAGER selects them and the call names their secret.
DopplerYield(l) ==
    IF IsSet(DOPPLER_TOKEN) /\ Answers("doppler")
    THEN HeldValue(stores["doppler"].secrets, NameInEnv(l))
    ELSE None

AwsYield(l) ==
    IF ManagerIs(<<"a", "w", "s">>) /\ Answers("aws")
       /\ l.aws_secret_name = stores["aws"].path
    THEN FirstHeld(stores["aws"].secrets, lower(l.key), lower(NameInEnv(l)))
    ELSE None

VaultYield(l) ==
    IF ManagerIs(<<"v", "a", "u", "l", "t">>) /\ Answers("vault")
       /\ IsSet(SECRETS_VAULT_URL) /\ IsSet(SECRETS_VAULT_TOKEN)
       /\ l.vault_secret_path = stores["vault"].path
    THEN FirstHeld(stores["vault"].secrets, lower(l.key), lower(NameInEnv(l)))
    ELSE None

EnvYield(l) == IF IsSet(NameInEnv(l)) THEN environ[NameInEnv(l)] ELSE None

\* The yields in the fixed ranking.
Ranked(l) == <<DopplerYield(l), AwsYield(l), VaultYield(l), EnvYield(l)>>

\* The value of the highest-ranked source that yields one, else the default.
RankedValue(l) ==
    LET r == Ranked(l)
    IN  IF \E i \in 1..4 : r[i] # None
        THEN r[CHOOSE i \in 1..4 : r[i] # None /\ \A j \in 1..(i - 1) : r[j] = None]
        ELSE l.default

PlainKeyLookup ==
    /\ lookup.via = "get_secret"
    /\ lookup.key = GEMINI_API_KEY
    /\ lookup.platform = None
    /\ lookup.aws_secret_name = None
    /\ lookup.vault_secret_path = None

\* C14: get_secret("GEMINI_API_KEY") returns the environment value when only
\* the environment holds the key, and the Doppler value when Doppler
\* (DOPPLER_TOKEN set, Doppler answering) and the environment both hold a
\* non-empty value.
C14_EnvAloneAndDopplerFirst ==
    PlainKeyLookup =>
        /\ (/\ IsSet(GEMINI_API_KEY)
            /\ \A src \in DOMAIN stores :
                   HeldValue(stores[src].secrets, GEMINI_API_KEY) = None
                   /\ HeldValue(stores[src].secrets, lower(GEMINI_API_KEY)) = None)
           => lookup.value = environ[GEMINI_API_KEY]
        /\ (/\ IsSet(GEMINI_API_KEY)
            /\ IsSet(DOPPLER_TOKEN)
            /\ Answers("doppler")
            /\ HeldValue(stores["doppler"].secrets, GEMINI_API_KEY) # None)
           => lookup.value = stores["doppler"].secrets[GEMINI_API_KEY]

C14_Witness ==
    /\ PlainKeyLookup
    /\ IsSet(GEMINI_API_KEY)
    /\ IsSet(DOPPLER_TOKEN)
    /\ lookup.value = <<"doppler-key">>
    /\ environ[GEMINI_API_KEY] = <<"env-key">>

\* C15: for every combination of contents, get_secret returns the value of the
\* highest-ranked source (Doppler, AWS, Vault, environment) that yields a
\* non-empty value, and the default only when none does.
C15_HighestRankedSourceWins ==
    lookup.via = "get_secret" =>
        LET r == Ranked(lookup)
        IN  /\ lookup.value = RankedValue(lookup)
            /\ (lookup.value = lookup.default => \A i \in 1..4 : r[i] = None)

C15_Witness ==
    /\ lookup.via = "get_secret"
    /\ IsSet(DOPPLER_TOKEN)
    /\ DopplerYield(lookup) = None
    /\ AwsYield(lookup) = None
    /\ VaultYield(lookup) = <<"vault-token">>
    /\ EnvYield(lookup) = <<"env-token">>
    /\ lookup.value = <<"vault-token">>

\* A source the lookup turns to and that fails.
FailingSource(l, src) ==
    /\ ~Answers(src)
    /\ \/ src = "doppler" /\ IsSet(DOPPLER_TOKEN)
       \/ src = "aws" /\ ManagerIs(<<"a", "w", "s">>) /\ l.aws_secret_name # None
       \/ src = "vault" /\ ManagerIs(<<"v", "a", "u", "l", "t">>)
          /\ l.vault_secret_path # None

RankOf(src) == IF src = "doppler" THEN 1 ELSE IF src = "aws" THEN 2 ELSE 3

\* What the sources ranked after position r yield first, else the default.
YieldAfter(l, r) ==
    LET y == Ranked(l)
    IN  IF \E i \in (r + 1)..4 : y[i] # None
        THEN y[CHOOSE i \in (r + 1)..4 : y[i] # None /\ \A j \in (r + 1)..(i - 1) : y[j] = None]
        ELSE l.default

\* C16: a source that is unreachable, fails authentication or lacks its
\* client library yields no value: get_secret does not raise and returns what
\* the sources ranked after it yield, the environment value when it is set.
C16_FailingSourceSkipped ==
    \A src \in DOMAIN stores :
        lookup.via = "get_secret" /\ FailingSource(lookup, src) =>
            LET r == Ranked(lookup)
            IN  /\ lookup.raised = NoException
                /\ (\A j \in 1..(RankOf(src) - 1) : r[j] = None)
                       => lookup.value = YieldAfter(lookup, RankOf(src))

C16_Witness ==
    /\ lookup.via = "get_secret"
    /\ stores["doppler"].status = "no_library"
    /\ stores["aws"].status = "unreachable"
    /\ stores["vault"].status = "unauthenticated"
    /\ FailingSource(lookup, "doppler")
    /\ FailingSource(lookup, "aws")
    /\ lookup.value = <<"env-key">>

\* The non-empty value the secrets manager that SECRETS_MANAGER enables holds
\* for the key.
ManagerValue(l) ==
    IF ManagerIs(<<"a", "w", "s">>) /\ Answers("aws")
    THEN HeldValue(stores["aws"].secrets, lower(l.key))
    ELSE IF ManagerIs(<<"v", "a", "u", "l", "t">>) /\ Answers("vault")
            /\ IsSet(SECRETS_VAULT_URL) /\ IsSet(SECRETS_VAULT_TOKEN)
    THEN HeldValue(stores["vault"].secrets, lower(l.key))
    ELSE None

\* C17: Config.get_secret follows the documented priority: when Doppler does
\* not hold the key and the enabled secrets manager holds a non-empty value,
\* that value is returned in preference to the environment variable.
C17_ConfigPrefersSecretsManager ==
    (/\ lookup.via = "Config.get_secret"
     /\ DopplerYield(lookup) = None
     /\ ManagerValue(lookup) # None)
        => lookup.value = ManagerValue(lookup)

---------------------------------------------------------------------------
\* Properties of the shared configuration.

\* C20 as stated: a setting read again through the shared configuration has
\* the value it had at the first read, whatever happened to the sources in
\* between.
C20_ReadsRepeatFirstValue ==
    \A setting \in Settings :
        config.reads[setting].count > 1 =>
            config.reads[setting].last = config.reads[setting].first

\* C20, amended: the Config object is what is created once and shared, and
\* every read of a setting through it yields the value the sources resolve to
\* at the time of that read.
C20_SharedObjectReadsCurrentValue ==
    [][/\ config'.handles \subseteq {config'.instance}
       /\ (config.instance # 0 /\ config'.instance # 0 => config'.instance = config.instance)
       /\ \A setting \in Settings :
              config'.reads[setting] # config.reads[setting] /\ config'.reads[setting].read
                  => /\ environ' = environ
                     /\ config'.reads[setting].last = property_value(setting)]_vars

C20_Witness ==
    /\ config.instance = 1
    /\ config.created = 1
    /\ config.reads["gemini_api_key"].read
    /\ config.reads["gemini_api_key"].first = <<"env-key">>
    /\ config.reads["gemini_api_key"].last = <<"rotated-key">>
    /\ config.reads["gemini_api_key"].count = 2
    /\ config.reads["default_meanness"].read
    /\ config.reads["default_meanness"].first = 5
    /\ config.reads["default_meanness"].last = 7

---------------------------------------------------------------------------
\* Properties of main().

\* A run of main in a generation mode: neither --flavors nor a bot.
GenerationRun == cli.state # "idle" /\ ~cli.argv.flavors /\ ~cli.argv.bot

\* Some source the configuration reads holds a non-empty GEMINI_API_KEY:
\* Doppler when its token is set and it answers, or the environment.
KeyResolves ==
    \/ /\ IsSet(DOPPLER_TOKEN)
       /\ Answers("doppler")
       /\ HeldValue(stores["doppler"].secrets, GEMINI_API_KEY) # None
    \/ IsSet(GEMINI_API_KEY)

\* Nothing of the generator has run for the CLI.
GeneratorUntouched ==
    /\ ~cli.generator_built
    /\ pc["cli"] = "idle"
    /\ requests["cli"] = << >>
    /\ batch["cli"] = NoBatch
    /\ random_frame["cli"] = NoRandom

\* C18: in a generation mode (random, batch, single joke, interactive) with a
\* GEMINI_API_KEY that resolves to no non-empty value, main has returned exit
\* code 1 with the key reported missing, no generator was constructed and no
\* remote call was issued; with --flavors main returns exit code 0 and the
\* themes, whether or not the key resolves.
C18_MissingKeyExitsOne ==
    /\ GenerationRun /\ ~KeyResolves
           => /\ cli.state = "done"
              /\ cli.exit_code = 1
              /\ cli.missing = <<GEMINI_API_KEY>>
              /\ GeneratorUntouched
    /\ cli.state # "idle" /\ cli.argv.flavors
           => /\ cli.state = "done"
              /\ cli.exit_code = 0
              /\ cli.listing
              /\ listed["cli"].items = FLAVORS
              /\ GeneratorUntouched

\* A batch run was refused for the missing key although Doppler holds it but
\* cannot be reached and the environment has the key set to "".
C18_Witness ==
    /\ cli.state = "done"
    /\ cli.argv.batch = 2
    /\ main_mode(cli.argv) = "batch"
    /\ cli.exit_code = 1
    /\ cli.missing = <<GEMINI_API_KEY>>
    /\ environ[GEMINI_API_KEY] = << >>
    /\ IsSet(DOPPLER_TOKEN)
    /\ ~Answers("doppler")

---------------------------------------------------------------------------
\* Properties of the chat commands.

\* The command on platform c holds a level outside the range its platform
\* announces: meanness outside 1..11 or nerdiness outside 1..10.
HoldsLevelOutOfRange(c) ==
    \/ chat[c].has_meanness /\ ~(chat[c].meanness \in 1..11)
    \/ chat[c].has_nerdiness /\ ~(chat[c].nerdiness \in 1..10)

\* C19: a chat command given a meanness or nerdiness out of range is rejected
\* with a range error and the generator is not invoked for it.
C19_OutOfRangeLevelRejected ==
    \A c \in ChatCallers :
        chat[c].state # "idle" /\ HoldsLevelOutOfRange(c)
            => /\ chat[c].state = "rejected"
               /\ chat[c].reply \in {"meanness_error", "nerdiness_error"}
               /\ pc[c] = "idle"
               /\ requests[c] = << >>

---------------------------------------------------------------------------
\* Properties of the configured default levels.

\* C21: whatever the sources hold for DEFAULT_MEANNESS and DEFAULT_NERDINESS,
\* the default level read through the configuration is an integer in 1..10.
C21_DefaultLevelsInRange ==
    \A setting \in IntSettings :
        config.reads[setting].read => config.reads[setting].last \in 1..10

---------------------------------------------------------------------------
\* Properties of the composed prompt.

\* The subject of the joke: the target name when one is given, else "yo mama".
Subject(target_name) ==
    IF target_name = None \/ target_name = << >>
    THEN <<"y", "o", " ", "m", "a", "m", "a">>
    ELSE target_name

\* A text with its first letter in upper case and the others in lower case.
Capitalized(s) ==
    [i \in DOMAIN s |->
        IF i = 1
        THEN (IF s[i] \in Range(LowerChars) THEN upper_char(s[i]) ELSE s[i])
        ELSE (IF s[i] \in Range(UpperChars) THEN lower_char(s[i]) ELSE s[i])]

\* The line of the prompt that names the subject.
SubjectLine(subject) ==
    <<"\n\nTARGET: Use \"">> \o subject
    \o <<"\" instead of \"yo mama\"\n\nREQUIREMENTS:\n- Start with \"">>

\* The requirement of the prompt that fixes the opener.
OpenerRule(subject) ==
    <<"\" instead of \"yo mama\"\n\nREQUIREMENTS:\n- Start with \"">>
    \o Capitalized(subject) \o <<" ", "s", "o">>
    \o <<" [adjective]...\"\n- The joke must be related to ">>

\* The names the template of _build_prompt fills in.
Placeholders ==
    {"{flavor}", "{flavor_context}", "{meanness}", "{nerdiness}", "{target}",
     "{meanness_guide[meanness]}", "{nerdiness_guide[nerdiness]}",
     "{target.capitalize()}", "{", "}"}

\* C22: a composed prompt names the target, or "yo mama" without one, as the
\* subject and requires the opener "<Subject> so [adjective]..." with the
\* subject capitalized; for theme tech, levels 5 and 5 and no target it
\* contains "Yo mama so", the tech context phrase and no placeholder.
C22_PromptNamesSubject ==
    \A c \in Callers :
        pc[c] = "awaiting" =>
            /\ contains(SubjectLine(Subject(args[c].target_name)), prompt[c])
            /\ contains(OpenerRule(Subject(args[c].target_name)), prompt[c])
            /\ (/\ flavor[c] = <<"t", "e", "c", "h">>
                /\ meanness[c] = 5
                /\ nerdiness[c] = 5
                /\ args[c].target_name = None)
                   => /\ contains(<<"Y", "o", " ", "m", "a", "m", "a", " ", "s", "o">>,
                                  prompt[c])
                      /\ contains(<<"t", "e", "c", "h">> \o <<" - Focus on ">>
                                  \o <<"technology, computers, software, hardware, operating systems, IT support, tech companies">>,
                                  prompt[c])
                      /\ Range(prompt[c]) \cap Placeholders = {}

\* A prompt composed for the target "bOB" requires the opener "Bob so".
C22_Witness ==
    /\ pc["cli"] = "awaiting"
    /\ args["cli"].target_name = <<"b", "O", "B">>
    /\ contains(<<"B", "o", "b", " ", "s", "o">>, prompt["cli"])
    /\ contains(<<"\n\nTARGET: Use \"", "b", "O", "B">>, prompt["cli"])

---------------------------------------------------------------------------
\* Properties of the lookup tables.

\* C23: the context table has an entry for every theme of the catalog and
\* each intensity table one for every level 1 to 10, so no lookup of
\* _build_prompt fails and the prompt composed for a catalog theme carries
\* that theme's own context phrase, not the default one, and the guidance
\* phrases of its clamped levels.
C23_TablesCoverCatalog ==
    /\ Range(class_flavors) \subseteq DOMAIN flavor_contexts
    /\ 1..10 \subseteq DOMAIN meanness_guide
    /\ 1..10 \subseteq DOMAIN nerdiness_guide
    /\ \A c \in Callers :
        /\ raised[c] # "KeyError"
        /\ pc[c] = "awaiting" /\ flavor[c] \in Range(class_flavors)
               => /\ flavor_contexts[flavor[c]] # default_flavor_context
                  /\ contains(<<" - Focus on ">> \o flavor_contexts[flavor[c]]
                              \o <<"\n\nMEANNESS LEVEL: ">>, prompt[c])
                  /\ ~contains(<<" - Focus on ">> \o default_flavor_context, prompt[c])
                  /\ contains(<<"/10 - ">> \o meanness_guide[meanness[c]]
                              \o <<"\n\nNERDINESS LEVEL: ">>, prompt[c])
                  /\ contains(<<"/10 - ">> \o nerdiness_guide[nerdiness[c]]
                              \o <<"\n\nTARGET: Use \"">>, prompt[c])

\* A prompt composed for the last theme of the catalog with levels that were
\* clamped from beyond both ends of the scale.
C23_Witness ==
    /\ pc["cli"] = "awaiting"
    /\ flavor["cli"] = <<"t", "h", "e", "g", "a", "m", "e">>
    /\ args["cli"].meanness > 10
    /\ meanness["cli"] = 10
    /\ args["cli"].nerdiness < 1
    /\ nerdiness["cli"] = 1
    /\ contains(meanness_guide[10], prompt["cli"])

---------------------------------------------------------------------------
\* Properties of concurrent invocations.

\* Everything caller c's generate_joke invocation works with.
Invocation(c) ==
    <<pc[c], args[c], flavor[c], meanness[c], nerdiness[c], prompt[c], requests[c],
      outcome[c], result[c], raised[c]>>

\* What the invocation of c returns for its own theme and its own remote
\* outcome: the trimmed text, a throttling joke, or the theme's fallback.
OwnResults(c) ==
    IF outcome[c].kind = "response" /\ outcome[c].text # None
    THEN {Trimmed(outcome[c].text)}
    ELSE IF outcome[c].kind = "error" /\ ThrottleMarked(outcome[c].msg)
    THEN Range(rate_limit_jokes)
    ELSE {get_fallback_joke(flavor[c])}

\* C24: under every interleaving of the invocations of the chat platforms, a
\* step of one invocation leaves every other invocation as it was, the prompt
\* an invocation composes and the result it returns follow from its own
\* arguments, theme and remote outcome, and no step changes the theme catalog, the model name or
\* the API key.
C24_InvocationsIndependent ==
    [][/\ model_name' = model_name
       /\ class_flavors' = class_flavors
       /\ cli'.api_key = cli.api_key
       /\ environ' = environ
       /\ \A c \in Callers :
            /\ Invocation(c)' # Invocation(c)
                   => \A d \in Callers \ {c} : Invocation(d)' = Invocation(d)
            /\ pc[c] # "awaiting" /\ pc'[c] = "awaiting"
                   => /\ prompt'[c] = build_prompt(flavor'[c], Clamped(args'[c].meanness),
                                                   Clamped(args'[c].nerdiness),
                                                   args'[c].target_name)
                      /\ Len(requests'[c]) = 1
                      /\ requests'[c][1].contents = prompt'[c]
            /\ pc[c] # "returned" /\ pc'[c] = "returned" /\ raised'[c] = NoException
                   => result'[c] \in OwnResults(c)']_vars

\* Discord's invocation has returned its text while Matrix's invocation, made
\* with other arguments, still waits for the remote call.
C24_Witness ==
    /\ pc["discord"] = "returned"
    /\ outcome["discord"].kind = "response"
    /\ result["discord"] = <<"Yo mama so slow, she's still loading Python 2.7!">>
    /\ pc["matrix"] = "awaiting"
    /\ args["matrix"] # args["discord"]
    /\ args["matrix"].target_name = <<"b", "O", "B">>
    /\ contains(<<"B", "o", "b", " ", "s", "o">>, prompt["matrix"])

---------------------------------------------------------------------------
\* Properties of the interactive loop.

InSession == cli.state = "generating" /\ cli.mode = "interactive"

\* What the loop prints for a command it rejects.
Rejections ==
    {"unknown_flavor", "meanness_range", "nerdiness_range", "invalid_number",
     "count_range", "unknown_command"}

\* Lines that are to be rejected: an unknown theme, levels out of range or no
\* number, counts out of range or no number, unknown commands.
RejectedLines ==
    {<<"f", " ", "b", "o", "g", "u", "s">>, <<"f">>, <<"F", " ", "l", "i", "n", "u", "x">>,
     <<"m", " ", "0">>, <<"m", " ", "1", "1">>, <<"m", " ", "-", "2">>,
     <<"m", " ", "l", "o", "w">>,
     <<"n", " ", "1", "2">>, <<"n", " ", "x">>,
     <<"b", " ", "0">>, <<"b", " ", "2", "1">>, <<"b", " ", "x">>,
     <<"h", "e", "l", "p">>}

\* Lines that are to be accepted, with the setting each names.
AcceptedLines ==
    {[line |-> <<"f", " ", "l", "i", "n", "u", "x">>, setting |-> "flavor"],
     [line |-> <<"f", " ", " ", "T", "e", "c", "h", " ">>, setting |-> "flavor"],
     [line |-> <<"m", " ", "3">>, setting |-> "meanness"],
     [line |-> <<"n", " ", "1", "0">>, setting |-> "nerdiness"],
     [line |-> <<"t", " ", "b", "O", "B">>, setting |-> "target"],
     [line |-> <<"t", " ", "N", "o", "n", "e">>, setting |-> "target"],
     [line |-> <<"t", " ", "r", "e", "s", "e", "t">>, setting |-> "target"]}

SessionSettings == {"flavor", "meanness", "nerdiness", "target"}

\* What the loop prints for an accepted change of each setting.
Confirmations ==
    [flavor |-> {"flavor_set"}, meanness |-> {"meanness_set"},
     nerdiness |-> {"nerdiness_set"}, target |-> {"target_set", "target_reset"}]

\* C25: a rejected command leaves the four session settings unchanged, and an
\* accepted f, m, n or t command changes only the setting it names, to the
\* value given.
C25_RejectedCommandKeepsSettings ==
    [][InSession /\ cli.pending = "none" /\ cli'.line # None
        => /\ cli'.line \in RejectedLines => cli'.feedback \in Rejections
           /\ cli'.feedback \in Rejections => cli'.session = cli.session
           /\ \A a \in AcceptedLines :
                cli'.line = a.line => cli'.feedback \in Confirmations[a.setting]
           /\ \A setting \in SessionSettings :
                cli'.feedback \in Confirmations[setting]
                    => \A other \in SessionSettings \ {setting} :
                           cli'.session[other] = cli.session[other]
           /\ cli'.line = <<"m", " ", "3">> => cli'.session.meanness = 3
           /\ cli'.line = <<"n", " ", "1", "0">> => cli'.session.nerdiness = 10
           /\ cli'.line = <<"f", " ", " ", "T", "e", "c", "h", " ">>
                  => cli'.session.flavor = <<"t", "e", "c", "h">>
           /\ cli'.line = <<"t", " ", "b", "O", "B">>
                  => cli'.session.target = <<"b", "O", "B">>
           /\ cli'.line = <<"t", " ", "N", "o", "n", "e">> => cli'.session.target = None]_vars

\* After three accepted changes an out-of-range meanness was rejected and
\* every setting is what it was.
C25_Witness ==
    /\ InSession
    /\ cli.line = <<"m", " ", "1", "1">>
    /\ cli.feedback = "meanness_range"
    /\ cli.session = [flavor |-> <<"l", "i", "n", "u", "x">>, meanness |-> 3,
                      nerdiness |-> 10, target |-> <<"b", "O", "B">>]

\* The configured defaults are a catalog theme and levels in 1..10.
DefaultsValid ==
    /\ property_value("default_flavor") \in Range(FLAVORS)
    /\ property_value("default_meanness") \in 1..10
    /\ property_value("default_nerdiness") \in 1..10

\* C26: with valid defaults the session theme is a lower-case member of the
\* catalog and the session levels are in 1..10 after any sequence of
\* commands, and generate_batch is only invoked with a count in 1..20.
C26_SessionSettingsValid ==
    /\ InSession /\ DefaultsValid
           => /\ cli.session.flavor \in Range(FLAVORS)
              /\ cli.session.flavor = lower(cli.session.flavor)
              /\ cli.session.meanness \in 1..10
              /\ cli.session.nerdiness \in 1..10
    /\ cli.mode = "interactive" /\ cli.pending = "batch" => cli.count \in 1..20
    /\ cli.mode = "interactive" /\ batch["cli"].bpc # "none"
           => batch["cli"].count \in 1..20

\* A batch of two runs with settings that were all changed from valid
\* defaults, the theme typed in mixed case.
C26_Witness ==
    /\ InSession
    /\ DefaultsValid
    /\ property_value("default_flavor") = <<"l", "i", "n", "u", "x">>
    /\ cli.session.flavor = <<"t", "e", "c", "h">>
    /\ cli.session.meanness = 3
    /\ cli.session.nerdiness = 10
    /\ batch["cli"].bpc = "loop"
    /\ batch["cli"].count = 2
    /\ batch["cli"].i = 1

\* C27: the loop ends only on quit or on a keyboard interrupt, and main then
\* returns exit code 0; any other exception raised while a line is read or
\* handled is reported and the loop goes on to the next prompt.
C27_LoopEndsOnQuitOrInterrupt ==
    [][InSession
        => /\ cli'.state # "generating"
                => /\ cli'.state = "done"
                   /\ cli'.exit_code = 0
                   /\ \/ /\ cli'.feedback = "bye"
                         /\ cli'.caught = NoException
                         /\ cli'.line \in {<<"q", "u", "i", "t">>, <<"Q", "u", "i", "t">>}
                      \/ /\ cli'.feedback = "interrupted"
                         /\ cli'.caught = "KeyboardInterrupt"
           /\ cli' # cli /\ cli'.caught \notin {NoException, "KeyboardInterrupt"}
                => /\ cli'.state = "generating"
                   /\ cli'.feedback = "error"
                   /\ cli'.pending = "none"
                   /\ cli'.session = cli.session]_vars

\* The input ended (EOFError), the error was printed and the loop is at its
\* prompt again.
C27_Witness ==
    /\ InSession
    /\ cli.caught = "EOFError"
    /\ cli.feedback = "error"
    /\ cli.pending = "none"
    /\ cli.session.meanness = 3

---------------------------------------------------------------------------
\* Properties of the Matrix bot's message callback.

TrimmedBody(event) == RightTrimmed(LeftTrimmed(event.body))

\* The bot's own messages, messages without the prefix in front, and the
\* prefix alone.
Ignorable(event) ==
    \/ event.sender = own_user_id
    \/ TrimmedBody(event) = << >>
    \/ Head(TrimmedBody(event)) # "!"
    \/ TrimmedBody(event) = <<"!">>

\* C28: for a room message sent by the bot itself, one that does not start
\* with the command prefix, or the prefix alone, the Matrix bot makes no
\* generator call and sends no message.
C28_OwnAndUnprefixedIgnored ==
    chat["matrix"].event # NoEvent /\ Ignorable(chat["matrix"].event)
        => /\ chat["matrix"].state = "ignored"
           /\ chat["matrix"].command = "none"
           /\ chat["matrix"].sent = << >>
           /\ pc["matrix"] = "idle"
           /\ batch["matrix"].bpc = "none"
           /\ ~random_frame["matrix"].active
           /\ ~listed["matrix"].held

\* The bot's own "!joke" came back from the room and was ignored, after
\* another message had been answered with an error.
C28_Witness ==
    /\ chat["matrix"].state = "ignored"
    /\ chat["matrix"].event = [sender |-> own_user_id, body |-> <<"!", "j", "o", "k", "e">>]
    /\ ~chat["matrix"].fails
    /\ chat["matrix"].logged = 1
    /\ pc["matrix"] = "idle"

\* C29: no error raised while a prefixed command is handled leaves the
\* message callback: it is answered with an error message where the room can
\* be reached, and the callback returns so that later messages are handled.
C29_NoErrorLeavesCallback ==
    /\ chat["matrix"].escaped = NoException
    /\ chat["matrix"].state # "crashed"
    /\ chat["matrix"].state = "failed"
           => /\ chat["matrix"].reply = "error"
              /\ chat["matrix"].logged >= 1
              /\ ~chat["matrix"].fails
                     => /\ chat["matrix"].sent # << >>
                        /\ chat["matrix"].sent[Len(chat["matrix"].sent)] = "error"
              /\ chat["matrix"].fails => chat["matrix"].sent = << >>
    /\ chat["matrix"].event.body = <<"!", "j", "o", "k", "e", " ", "t", "e", "c", "h", " ", "l", "o", "w">>
       /\ chat["matrix"].event.sender = other_user_id
           => chat["matrix"].state = "failed"
    /\ chat["matrix"].fails => chat["matrix"].sent = << >>

\* After an error was logged a later !joke is answered with its joke.
C29_Witness ==
    /\ chat["matrix"].logged = 1
    /\ chat["matrix"].state = "replied"
    /\ chat["matrix"].command = "cmd_joke"
    /\ chat["matrix"].sent = <<"generating", "joke">>
    /\ chat["matrix"].escaped = NoException

---------------------------------------------------------------------------
\* Letter case of the theme.

\* The theme was given and its lower-case form is in the catalog.
KnownInAnyCase(f) == f # None /\ f # << >> /\ lower(f) \in Range(FLAVORS)

TimedOut == Failure("ConnectionError", <<"t", "i", "m", "e", "d", " ", "o", "u", "t">>)

\* C30: a theme given in any letter case whose lower-case form is in the
\* catalog is accepted, and generate_joke uses the lower-case form: the
\* prompt and the fallback are those of the lower-case spelling.
C30_ThemeCaseInsensitive ==
    pc["cli"] # "idle" /\ KnownInAnyCase(args["cli"].flavor)
        => /\ flavor["cli"] = lower(args["cli"].flavor)
           /\ normalized_flavors(args["cli"].flavor)
                  = normalized_flavors(lower(args["cli"].flavor))
           /\ pc["cli"] = "awaiting"
                  => /\ prompt["cli"] = build_prompt(lower(args["cli"].flavor),
                                                     meanness["cli"], nerdiness["cli"],
                                                     args["cli"].target_name)
                     /\ flavor_context_of(flavor["cli"])
                            = flavor_contexts[lower(args["cli"].flavor)]
           /\ pc["cli"] = "returned" /\ outcome["cli"] = TimedOut
                  => /\ result["cli"] = get_fallback_joke(lower(args["cli"].flavor))
                     /\ raised["cli"] = NoException

\* The theme was typed in capitals, the request timed out and the fallback
\* is the one of "tech".
C30_Witness ==
    /\ pc["cli"] = "returned"
    /\ args["cli"].flavor = <<"T", "E", "C", "H">>
    /\ flavor["cli"] = <<"t", "e", "c", "h">>
    /\ outcome["cli"] = TimedOut
    /\ result["cli"] = fallbacks[<<"t", "e", "c", "h">>]

====
